---- MODULE Spec2Model ----
(***************************************************************************)
(* Verification model of the VapourSynth property map API and frame       *)
(* request API (src/core/vsapi.cpp), of the AVI v2 virtual file            *)
(* (src/avfs/avfsavi2.cpp) and of the audio filters                        *)
(* (src/core/audiofilters.cpp).                                            *)
(*                                                                         *)
(* SpecMap drives one VSMap through the prop* API functions.               *)
(* SpecAvi initialises one AvfsAvi2File and serves reads from it.          *)
(* SpecFrame issues frame requests and runs one synchronous getFrame       *)
(* against the completion callback; SpecFrameFair adds its scheduling.     *)
(* SpecAudio builds an audio filter over a test clip and requests frames.  *)
(***************************************************************************)
EXTENDS Integers, Sequences, FiniteSets, TLC

VARIABLES
    map,    \* the VSMap under test: [data, error]
    ret,    \* the last API call on the map: its arguments and its outcome
    proc,   \* "running", or "fatal" after vsFatal, or "crashed" after UB
    avi,    \* the AvfsAvi2File object (its fields after Init), or NoFile
    rd,     \* the last ReadMedia call: its arguments and the buffer it filled
    queue,  \* the FrameContexts handed to the scheduler by the request API
    caller, \* the thread inside the synchronous getFrame: its position
    waiter, \* the GetFrameWaiter g on the caller's stack
    cbk,    \* the scheduler's side of the caller's request: the callback
    pool,   \* the thread pool: reserved slots, release/reserve calls
    aud,    \* the audio filter instance under test, or NoFilter
    got,    \* the last audio frame requested from it
    deps    \* a filter's frame context: its requests and available frames

vars == <<map, ret, proc, avi, rd, queue, caller, waiter, cbk, pool, aud, got,
         deps>>

mapVars == <<map, ret, proc>>
aviVars == <<avi, rd>>
reqVars == <<queue, caller, waiter, cbk, pool>>
audVars == <<aud, got>>
depVars == <<deps>>

(***************************************************************************)
(* Part 1: the property map                                                *)
(***************************************************************************)

\* The number of elements the model lets the map hold, over all its keys.
MaxElems == 1

\* nullptr, as an element value or as a returned pointer
NoVal == <<"none">>
\* what a read through a mistyped or out-of-range element yields
Garbage == <<"garbage">>

\* VSPropType, by name
PropTypes == {"ptInt", "ptFloat", "ptData", "ptFunction",
              "ptVideoNode", "ptAudioNode", "ptVideoFrame", "ptAudioFrame"}

\* Element values the callers pass in.  Nodes and frames carry their media type.
IntVals   == {<<"int", 1>>, <<"int", -2>>}
FloatVals == {<<"float", 1>>}
DataVals  == {<<"data", "dtUtf8", "x">>, <<"data", "dtBinary", "yy">>}
NodeVals  == {<<"node", "mtVideo">>, <<"node", "mtAudio">>}
FrameVals == {<<"frame", "mtVideo">>, <<"frame", "mtAudio">>}
FuncVals  == {<<"func", 1>>}

ValsOfType(t) ==
    CASE t = "ptInt"        -> IntVals
      [] t = "ptFloat"      -> FloatVals
      [] t = "ptData"       -> DataVals
      [] t = "ptFunction"   -> FuncVals
      [] t = "ptVideoNode"  -> {v \in NodeVals : v[2] = "mtVideo"}
      [] t = "ptAudioNode"  -> {v \in NodeVals : v[2] = "mtAudio"}
      [] t = "ptVideoFrame" -> {v \in FrameVals : v[2] = "mtVideo"}
      [] t = "ptAudioFrame" -> {v \in FrameVals : v[2] = "mtAudio"}

\* Keys are C strings: sequences of character codes, without the final NUL.
\* "_aZ0" and "Az9_" are well formed; "", "0a" and "a{" are not.
ValidKeys   == {<<95, 97, 90, 48>>, <<65, 122, 57, 95>>}
InvalidKeys == {<< >>, <<48, 97>>, <<97, 123>>}
Keys        == ValidKeys \cup InvalidKeys

\* *s for a C string whose characters before the NUL are s[i..]
CharAt(s, i) == IF i <= Len(s) THEN s[i] ELSE 0

isAlphaUnderscore(c) ==
    (c >= 97 /\ c <= 122) \/ (c >= 65 /\ c <= 90) \/ c = 95

isAlphaNumUnderscore(c) ==
    (c >= 97 /\ c <= 122) \/ (c >= 65 /\ c <= 90) \/ (c >= 48 /\ c <= 57) \/ c = 95

\* the while (*s) loop of isValidVSMapKey, from position i
RECURSIVE KeyTailValid(_, _)
KeyTailValid(s, i) ==
    IF CharAt(s, i) = 0 THEN TRUE
    ELSE IF ~isAlphaNumUnderscore(CharAt(s, i)) THEN FALSE
    ELSE KeyTailValid(s, i + 1)

\* isValidVSMapKey without the test of the first character
isValidVSMapKey_TailOnly(s) == KeyTailValid(s, 1)

isValidVSMapKey(s) ==
    IF ~isAlphaUnderscore(CharAt(s, 1)) THEN FALSE
    ELSE KeyTailValid(s, 2)

\* ---- VSMap (vscore.h): the container the API functions call into ----

EmptyMap == [data |-> << >>, error |-> FALSE]

\* a null VSArrayBase pointer
NullArr == [type |-> "nullptr", elems |-> << >>]

\* map->find(key): the array stored under key, or nullptr
find(m, key) == IF key \in DOMAIN m.data THEN m.data[key] ELSE NullArr

\* map->insert(key, arr): store arr under key, replacing what was there
insert(m, key, arr) ==
    [m EXCEPT !.data = [k \in (DOMAIN m.data) \cup {key} |->
                           IF k = key THEN arr ELSE m.data[k]]]

\* map->erase(key)
erase(m, key) ==
    [m EXCEPT !.data = [k \in (DOMAIN m.data) \ {key} |-> m.data[k]]]

\* map->clear()
clear(m) == EmptyMap

\* map->hasError()
hasError(m) == m.error

\* map->setError(msg): the map becomes error-bearing
VSMap_setError(m) == [m EXCEPT !.error = TRUE]

\* VSArray<T, propType>: its type tag and its elements
NewArray(t, elems) == [type |-> t, elems |-> elems]
push_back(arr, v) == [arr EXCEPT !.elems = Append(@, v)]
size(arr) == Len(arr.elems)

\* arr->at(index): the element, when there is one.  The index is 0-based.
InRange(arr, index) == index >= 0 /\ index < size(arr)
at(arr, index) == arr.elems[index + 1]

\* ---- reading ----

\* What a getter hands back: the error code written through the error pointer
\* ("n/a" when the caller passed none), the returned value, whether vsFatal was
\* called, and whether the call read an element that is not there.
Outcome(err, out, fatal, ub) ==
    [err |-> err, out |-> out, fatal |-> fatal, ub |-> ub]

\* propGetShared: the array when the read is allowed, or nullptr and an error
\* code.  errp says whether the caller supplied the error pointer.
PGSFail(errp, code) ==
    [arr |-> NullArr, err |-> IF errp THEN code ELSE "n/a", fatal |-> ~errp]

\* propGetShared without the hasError test
propGetShared_NoErrorTest(m, key, index, errp, propType) ==
    LET arr == find(m, key) IN
    IF arr = NullArr THEN PGSFail(errp, "peUnset")
    ELSE IF index < 0 \/ index > size(arr) THEN PGSFail(errp, "peIndex")
    ELSE IF arr.type # propType THEN PGSFail(errp, "peType")
    ELSE [arr |-> arr, err |-> IF errp THEN "peSuccess" ELSE "n/a", fatal |-> FALSE]

propGetShared(m, key, index, errp, propType) ==
    LET arr == find(m, key) IN
    IF hasError(m) THEN PGSFail(errp, "peError")
    ELSE IF arr = NullArr THEN PGSFail(errp, "peUnset")
    ELSE IF index < 0 \/ index > size(arr) THEN PGSFail(errp, "peIndex")
    ELSE IF arr.type # propType THEN PGSFail(errp, "peType")
    ELSE [arr |-> arr, err |-> IF errp THEN "peSuccess" ELSE "n/a", fatal |-> FALSE]

\* The outcomes of dereferencing the array propGetShared returned as an array
\* of asType elements: the element, or, when the array has no element at index
\* or is of another type, whatever the bytes found there decode to.
Deref(r, index, asType) ==
    IF r.arr.type = asType /\ InRange(r.arr, index)
    THEN {Outcome(r.err, at(r.arr, index), FALSE, FALSE)}
    ELSE {Outcome(r.err, Garbage, FALSE, TRUE)}

\* a getter that found no array returns failVal
Failed(r, failVal) == {Outcome(r.err, failVal, r.fatal, FALSE)}

propGetInt(m, key, index, errp) ==
    LET r == propGetShared(m, key, index, errp, "ptInt") IN
    IF r.arr # NullArr THEN Deref(r, index, "ptInt") ELSE Failed(r, <<"int", 0>>)

propGetFloat(m, key, index, errp) ==
    LET r == propGetShared(m, key, index, errp, "ptFloat") IN
    IF r.arr # NullArr THEN Deref(r, index, "ptFloat") ELSE Failed(r, <<"float", 0>>)

propGetData(m, key, index, errp) ==
    LET r == propGetShared(m, key, index, errp, "ptData") IN
    IF r.arr # NullArr THEN Deref(r, index, "ptData") ELSE Failed(r, NoVal)

propGetNode(m, key, index, errp) ==
    LET r1 == propGetShared(m, key, index, errp, "ptVideoNode") IN
    IF r1.arr # NullArr THEN Deref(r1, index, "ptVideoNode")
    ELSE IF r1.fatal THEN Failed(r1, NoVal)
    ELSE LET r2 == propGetShared(m, key, index, errp, "ptAudioNode") IN
         IF r2.arr # NullArr THEN Deref(r2, index, "ptAudioNode")
         ELSE Failed(r2, NoVal)

propGetFrame(m, key, index, errp) ==
    LET r1 == propGetShared(m, key, index, errp, "ptData") IN
    IF r1.arr # NullArr THEN Deref(r1, index, "ptVideoFrame")
    ELSE IF r1.fatal THEN Failed(r1, NoVal)
    ELSE LET r2 == propGetShared(m, key, index, errp, "ptData") IN
         IF r2.arr # NullArr THEN Deref(r2, index, "ptAudioFrame")
         ELSE Failed(r2, NoVal)

propGetFunc(m, key, index, errp) ==
    LET r == propGetShared(m, key, index, errp, "ptData") IN
    IF r.arr # NullArr THEN Deref(r, index, "ptFunction") ELSE Failed(r, NoVal)

propNumElements(m, key) ==
    LET val == find(m, key) IN IF val # NullArr THEN size(val) ELSE -1

propGetType(m, key) ==
    LET val == find(m, key) IN IF val # NullArr THEN val.type ELSE "ptUnset"

\* ---- writing ----

AppendModes == {"paReplace", "paAppend", "paTouch"}

\* propSetShared that starts a new array when the stored type differs
propSetShared_Overwrite(m, key, val, append, propType) ==
    IF append \notin AppendModes
    THEN [map |-> m, ok |-> FALSE, fatal |-> TRUE]
    ELSE IF ~isValidVSMapKey(key)
    THEN [map |-> m, ok |-> FALSE, fatal |-> FALSE]
    ELSE LET arr == find(m, key) IN
         IF append # "paReplace" /\ arr # NullArr /\ arr.type = propType
         THEN [map |-> IF append # "paTouch"
                       THEN insert(m, key, push_back(arr, val))
                       ELSE m,
               ok |-> TRUE, fatal |-> FALSE]
         ELSE [map |-> insert(m, key,
                          IF append # "paTouch"
                          THEN push_back(NewArray(propType, << >>), val)
                          ELSE NewArray(propType, << >>)),
               ok |-> TRUE, fatal |-> FALSE]

\* propSetShared<T, propType>: the map afterwards, the bool it returns, and
\* whether vsFatal was called.
propSetShared(m, key, val, append, propType) ==
    IF append \notin AppendModes
    THEN [map |-> m, ok |-> FALSE, fatal |-> TRUE]
    ELSE IF ~isValidVSMapKey(key)
    THEN [map |-> m, ok |-> FALSE, fatal |-> FALSE]
    ELSE IF append = "paReplace"
    THEN [map |-> insert(m, key, push_back(NewArray(propType, << >>), val)),
          ok |-> TRUE, fatal |-> FALSE]
    ELSE LET arr == find(m, key) IN
         IF arr # NullArr /\ arr.type = propType
         THEN [map |-> IF append # "paTouch"
                       THEN insert(m, key, push_back(arr, val))
                       ELSE m,
               ok |-> TRUE, fatal |-> FALSE]
         ELSE IF arr # NullArr
         THEN [map |-> m, ok |-> FALSE, fatal |-> FALSE]
         ELSE [map |-> insert(m, key,
                          IF append # "paTouch"
                          THEN push_back(NewArray(propType, << >>), val)
                          ELSE NewArray(propType, << >>)),
               ok |-> TRUE, fatal |-> FALSE]

propSetInt(m, key, i, append)   == propSetShared(m, key, i, append, "ptInt")
propSetFloat(m, key, d, append) == propSetShared(m, key, d, append, "ptFloat")
propSetData(m, key, d, append)  == propSetShared(m, key, d, append, "ptData")
propSetFunc(m, key, f, append)  == propSetShared(m, key, f, append, "ptFunction")

propSetNode(m, key, node, append) ==
    IF node[2] = "mtVideo"
    THEN propSetShared(m, key, node, append, "ptVideoNode")
    ELSE propSetShared(m, key, node, append, "ptAudioNode")

propSetFrame(m, key, frame, append) ==
    IF frame[2] = "mtVideo"
    THEN propSetShared(m, key, frame, append, "ptVideoFrame")
    ELSE propSetShared(m, key, frame, append, "ptAudioFrame")

\* propSetIntArray / propSetFloatArray: the map afterwards and the int returned
propSetIntArray(m, key, i, sz) ==
    IF sz < 0 THEN [map |-> m, rc |-> 1]
    ELSE IF ~isValidVSMapKey(key) THEN [map |-> m, rc |-> 1]
    ELSE [map |-> insert(m, key, NewArray("ptInt", SubSeq(i, 1, sz))), rc |-> 0]

propSetFloatArray(m, key, d, sz) ==
    IF sz < 0 THEN [map |-> m, rc |-> 1]
    ELSE IF ~isValidVSMapKey(key) THEN [map |-> m, rc |-> 1]
    ELSE [map |-> insert(m, key, NewArray("ptFloat", SubSeq(d, 1, sz))), rc |-> 0]

propSetEmpty(m, key, type) ==
    IF ~isValidVSMapKey(key) \/ find(m, key) # NullArr THEN [map |-> m, rc |-> -1]
    ELSE IF type \in PropTypes
    THEN [map |-> insert(m, key, NewArray(type, << >>)), rc |-> 0]
    ELSE [map |-> m, rc |-> -1]

propDeleteKey(m, key) ==
    [map |-> erase(m, key), rc |-> IF key \in DOMAIN m.data THEN 1 ELSE 0]

\* ---- the calls a host or filter makes on the map ----

\* ret: the call's name and arguments (key, val, mode, index, errp), what it
\* returned (rc, err, out), whether it read an element that is not there (ub),
\* whether it changed the map, and, for a successful append, the run of appends
\* it belongs to: the elements the key held before the run (base) and the
\* values appended since (vals).
NoCall == [op |-> "none", key |-> << >>, val |-> NoVal, mode |-> "n/a",
           index |-> -1, errp |-> FALSE, rc |-> 0, err |-> "n/a",
           out |-> NoVal, ub |-> FALSE, changed |-> TRUE,
           base |-> << >>, vals |-> << >>]

RECURSIVE TotalElems(_, _)
TotalElems(m, ks) ==
    IF ks = {} THEN 0
    ELSE LET k == CHOOSE x \in ks : TRUE IN
         size(m.data[k]) + TotalElems(m, ks \ {k})

\* the model keeps the map within MaxElems elements
Fits(m) == TotalElems(m, DOMAIN m.data) <= MaxElems

\* A call that left the map as it was adds nothing to continue from: the calls
\* that can follow it are the calls that can follow the state before it.  The
\* search goes on from the calls that changed the map.
CanCall == proc = "running" /\ ret.changed

\* a typed setter returned r (propSetInt and the like return !ok)
Setter(op, r, key, val, mode) ==
    /\ CanCall
    /\ Fits(r.map)
    /\ map' = r.map
    /\ LET inRun == /\ ret.op = op /\ ret.key = key
                    /\ ret.mode = "paAppend" /\ ret.rc = 0
           isApp == mode = "paAppend" /\ r.ok
       IN ret' = [NoCall EXCEPT
                    !.op = op, !.key = key, !.val = val, !.mode = mode,
                    !.rc = IF r.ok THEN 0 ELSE 1,
                    !.changed = (r.map # map),
                    !.base = IF ~isApp THEN << >>
                             ELSE IF inRun THEN ret.base
                             ELSE find(map, key).elems,
                    !.vals = IF ~isApp THEN << >>
                             ELSE IF inRun THEN Append(ret.vals, val)
                             ELSE <<val>>]
    /\ proc' = IF r.fatal THEN "fatal" ELSE "running"
    /\ UNCHANGED <<aviVars, reqVars, audVars, depVars>>

\* a getter returned o, one of the outcomes os
Getter(op, os, key, index, errp) ==
    /\ CanCall
    /\ \E o \in os :
         /\ ret' = [NoCall EXCEPT !.op = op, !.key = key, !.index = index,
                                  !.errp = errp, !.err = o.err, !.out = o.out,
                                  !.ub = o.ub, !.changed = FALSE]
         /\ \/ proc' = (IF o.fatal THEN "fatal" ELSE "running")
            \/ o.ub /\ proc' = "crashed"
    /\ UNCHANGED map
    /\ UNCHANGED <<aviVars, reqVars, audVars, depVars>>

Modes == AppendModes
Indexes == 0 .. MaxElems

PropSetInt ==
    \E key \in Keys, v \in IntVals, mode \in Modes :
        Setter("propSetInt", propSetInt(map, key, v, mode), key, v, mode)

PropSetFloat ==
    \E key \in Keys, v \in FloatVals, mode \in Modes :
        Setter("propSetFloat", propSetFloat(map, key, v, mode), key, v, mode)

PropSetData ==
    \E key \in Keys, v \in DataVals, mode \in Modes :
        Setter("propSetData", propSetData(map, key, v, mode), key, v, mode)

PropSetNode ==
    \E key \in Keys, v \in NodeVals, mode \in Modes :
        Setter("propSetNode", propSetNode(map, key, v, mode), key, v, mode)

PropSetFrame ==
    \E key \in Keys, v \in FrameVals, mode \in Modes :
        Setter("propSetFrame", propSetFrame(map, key, v, mode), key, v, mode)

PropSetFunc ==
    \E key \in Keys, v \in FuncVals, mode \in Modes :
        Setter("propSetFunc", propSetFunc(map, key, v, mode), key, v, mode)

\* every sequence over S of length 0..n
RECURSIVE SeqsUpTo(_, _)
SeqsUpTo(S, n) ==
    IF n = 0 THEN {<< >>}
    ELSE LET shorter == SeqsUpTo(S, n - 1) IN
         shorter \cup {Append(q, x) : q \in {t \in shorter : Len(t) = n - 1}, x \in S}

\* a bulk setter, propSetEmpty or propDeleteKey returned r
BulkSetter(op, r, key, val, mode) ==
    /\ CanCall
    /\ Fits(r.map)
    /\ map' = r.map
    /\ ret' = [NoCall EXCEPT !.op = op, !.key = key, !.val = val, !.mode = mode,
                             !.rc = r.rc, !.changed = (r.map # map)]
    /\ UNCHANGED proc
    /\ UNCHANGED <<aviVars, reqVars, audVars, depVars>>

PropSetIntArray ==
    \E key \in Keys, a \in SeqsUpTo(IntVals, MaxElems) :
        BulkSetter("propSetIntArray", propSetIntArray(map, key, a, Len(a)), key, a, "n/a")

PropSetFloatArray ==
    \E key \in Keys, a \in SeqsUpTo(FloatVals, MaxElems) :
        BulkSetter("propSetFloatArray", propSetFloatArray(map, key, a, Len(a)), key, a, "n/a")

PropSetEmpty ==
    \E key \in Keys, t \in PropTypes \cup {"ptUnset"} :
        BulkSetter("propSetEmpty", propSetEmpty(map, key, t), key, NoVal, t)

PropDeleteKey ==
    \E key \in ValidKeys :
        BulkSetter("propDeleteKey", propDeleteKey(map, key), key, NoVal, "n/a")

ClearMap ==
    /\ CanCall
    /\ map' = clear(map)
    /\ ret' = [NoCall EXCEPT !.op = "clearMap", !.changed = (clear(map) # map)]
    /\ UNCHANGED proc
    /\ UNCHANGED <<aviVars, reqVars, audVars, depVars>>

SetError ==
    /\ CanCall
    /\ map' = VSMap_setError(map)
    /\ ret' = [NoCall EXCEPT !.op = "setError",
                             !.changed = (VSMap_setError(map) # map)]
    /\ UNCHANGED proc
    /\ UNCHANGED <<aviVars, reqVars, audVars, depVars>>

\* A key that is not stored reads the same whatever its spelling, so the reads
\* use the well-formed keys, stored or not.
PropGetInt ==
    \E key \in ValidKeys, index \in Indexes, errp \in BOOLEAN :
        Getter("propGetInt", propGetInt(map, key, index, errp), key, index, errp)

PropGetFloat ==
    \E key \in ValidKeys, index \in Indexes, errp \in BOOLEAN :
        Getter("propGetFloat", propGetFloat(map, key, index, errp), key, index, errp)

PropGetData ==
    \E key \in ValidKeys, index \in Indexes, errp \in BOOLEAN :
        Getter("propGetData", propGetData(map, key, index, errp), key, index, errp)

PropGetNode ==
    \E key \in ValidKeys, index \in Indexes, errp \in BOOLEAN :
        Getter("propGetNode", propGetNode(map, key, index, errp), key, index, errp)

PropGetFrame ==
    \E key \in ValidKeys, index \in Indexes, errp \in BOOLEAN :
        Getter("propGetFrame", propGetFrame(map, key, index, errp), key, index, errp)

PropGetFunc ==
    \E key \in ValidKeys, index \in Indexes, errp \in BOOLEAN :
        Getter("propGetFunc", propGetFunc(map, key, index, errp), key, index, errp)

PropNumElements ==
    /\ CanCall
    /\ \E key \in ValidKeys :
         ret' = [NoCall EXCEPT !.op = "propNumElements", !.key = key,
                               !.rc = propNumElements(map, key),
                               !.changed = FALSE]
    /\ UNCHANGED <<map, proc>>
    /\ UNCHANGED <<aviVars, reqVars, audVars, depVars>>

NoFile == [state |-> "none"]
NoRead == [state |-> "none"]

InitMap == map = EmptyMap /\ ret = NoCall /\ proc = "running"
InitAvi == avi = NoFile /\ rd = NoRead

\* No synchronous getFrame is in progress: the caller is outside the call,
\* there is no waiter object and no request of its in the scheduler.
PoolThreads == 2
IdleCaller == [pc |-> "idle", n |-> 0, isWorker |-> FALSE, cached |-> FALSE,
               result |-> <<"none">>]
NoWaiter   == [alive |-> FALSE, owner |-> "none", r |-> <<"nullptr">>,
               signalled |-> FALSE]
NoCallback == [state |-> "none", n |-> 0, thread |-> "none",
               frame |-> <<"nullptr">>]
IdlePool   == [reserved |-> PoolThreads, releaseCalls |-> 0,
               reserveCalls |-> 0]

NoFilter == [filter |-> "none"]
NoFrame  == [state |-> "none"]
\* A frame context without requests, and no call on it yet.
NoDeps   == [requested |-> {}, availableFrames |-> {},
             last |-> [op |-> "none"]]

InitReq == /\ queue = << >>
           /\ caller = IdleCaller
           /\ waiter = NoWaiter
           /\ cbk = NoCallback
           /\ pool = IdlePool
InitAud == aud = NoFilter /\ got = NoFrame
InitDeps == deps = NoDeps

Init == InitMap /\ InitAvi /\ InitReq /\ InitAud /\ InitDeps

NextMap ==
    \/ PropSetInt
    \/ PropSetFloat
    \/ PropSetData
    \/ PropSetNode
    \/ PropSetFrame
    \/ PropSetFunc
    \/ PropSetIntArray
    \/ PropSetFloatArray
    \/ PropSetEmpty
    \/ PropDeleteKey
    \/ ClearMap
    \/ SetError
    \/ PropGetInt
    \/ PropGetFloat
    \/ PropGetData
    \/ PropGetNode
    \/ PropGetFrame
    \/ PropGetFunc
    \/ PropNumElements

SpecMap == Init /\ [][NextMap]_vars

(***************************************************************************)
(* Part 2: the AVI v2 virtual file                                         *)
(***************************************************************************)

\* The largest number of video frames of a clip the model serves.
MaxVidFrames == 2

\* sizeof and offsetof of the structures of the file layout, with the 40
\* bytes of a WAVEFORMATEXTENSIBLE for WaveFormatExtensible
RiffTagSize          == 8        \* sizeof(RiffTag)
Avi2IndxEntrySize    == 8        \* sizeof(Avi2IndxEntry)
Avi2OldIndxEntrySize == 16       \* sizeof(Avi2OldIndxEntry)
Seg0HdrSize          == 170952   \* offsetof(AvfsAvi2Seg0, dataLst.data)
SegNHdrSize          == 24       \* offsetof(AvfsAvi2SegN, dataLst.data)
Seg0DataLstOffset    == 170940   \* offsetof(AvfsAvi2Seg0, dataLst)
SegNDataLstOffset    == 12       \* offsetof(AvfsAvi2SegN, dataLst)
IndxEntsOffset       == 32       \* offsetof(AvfsAvi2Indx, ents)
OldIndxEntsOffset    == 8        \* offsetof(AvfsAvi2OldIndx, ents)

indxPrePadSize  == 131072
indxPostPadSize == 131072

avi2MaxSegSize == 1073741822
\* avi2Max4GbSegSize is 0xFFFFFFFE, twice this value
avi2Max4GbSegSizeHalf == 2147483647
avfsAvi2MaxSuperIndxEntryCount == 5000

avfsAvi2MaxDataLstSize == avi2MaxSegSize - Seg0HdrSize - OldIndxEntsOffset
\* avfsAvi2Max4GbDataLstSize is twice this value
avfsAvi2Max4GbDataLstSizeHalf ==
    avi2Max4GbSegSizeHalf - ((Seg0HdrSize + OldIndxEntsOffset) \div 2)

\* MAKETAGUINT32: the four characters packed with the first in the low byte
MAKETAGUINT32(a, b, c, d) == a + b * 256 + c * 65536 + d * 16777216

riffFcc            == MAKETAGUINT32(82, 73, 70, 70)     \* 'RIFF'
riffLstFcc         == MAKETAGUINT32(76, 73, 83, 84)     \* 'LIST'
riffJunkFcc        == MAKETAGUINT32(74, 85, 78, 75)     \* 'JUNK'
avi2FileFcc        == MAKETAGUINT32(65, 86, 73, 32)     \* 'AVI '
avi2SegLstFcc      == MAKETAGUINT32(65, 86, 73, 88)     \* 'AVIX'
avi2DataLstFcc     == MAKETAGUINT32(109, 111, 118, 105) \* 'movi'
avfsAvi2VidRgbFcc  == MAKETAGUINT32(48, 48, 100, 98)    \* '00db'
avfsAvi2VidCompFcc == MAKETAGUINT32(48, 48, 100, 99)    \* '00dc'
avfsAvi2AudFcc     == MAKETAGUINT32(48, 49, 119, 98)    \* '01wb'
avfsAvi2VidIndxFcc == MAKETAGUINT32(105, 120, 48, 48)   \* 'ix00'
avfsAvi2AudIndxFcc == MAKETAGUINT32(105, 120, 48, 49)   \* 'ix01'

\* The bytes a 32 bit field occupies in memory (little endian host).
LE32(v) == <<v % 256, (v \div 256) % 256, (v \div 65536) % 256,
             (v \div 16777216) % 256>>

\* The low and the high 32 bits of a 64 bit offset.  The offsets of the
\* clips below stay under 2^31, where the high word is 0.
High32(v) == (v \div 65536) \div 65536
Low32(v)  == v - High32(v) * 65536 * 65536

RiffAlignUp(n) == (n + 1) - ((n + 1) % 2)

Min(a, b) == IF a < b THEN a ELSE b
Max(a, b) == IF a > b THEN a ELSE b

(***************************************************************************)
(* The clip: the VideoInfoAdapter of the script.                           *)
(***************************************************************************)
\* 1073308642 + 76 is avfsAvi2MaxDataLstSize less the two index pads: with
\* audio of 3 byte samples one such frame is all a small segment is to hold
\* (maxSegFrameCount = 1); a larger frame makes maxSegFrameCount 0.
FrameSizes   == {3, 4, 600000000, 1073308642}
VidTypes     == {"none", "DIB ", "YV12"}
SampleSizes  == {2, 3}
SampleCounts == {0, 4, 7}
SampleRates  == {3}
FrameRates   == {<<1, 1>>, <<2, 1>>}

\* The clips, those left out whose file would not fit 2^31 bytes; a clip
\* without audio has one sample size.
Clips ==
    { c \in
        { [num_frames |-> n, bmpSize |-> b, vidType |-> t, sampleSize |-> ss,
           num_audio_samples |-> na, audio_samples_per_second |-> sr,
           fps_numerator |-> fr[1], fps_denominator |-> fr[2]] :
            n \in 0 .. MaxVidFrames, b \in FrameSizes, t \in VidTypes,
            ss \in SampleSizes, na \in SampleCounts, sr \in SampleRates,
            fr \in FrameRates } :
        /\ c.num_frames * (c.bmpSize \div 1000000) < 2000
        /\ (c.num_audio_samples = 0 => c.sampleSize = 2) }

HasAudio(vi) == vi.audio_samples_per_second # 0

AudioSamplesFromFrames(vi, frames) ==
    IF vi.fps_numerator # 0
    THEN (frames * vi.audio_samples_per_second * vi.fps_denominator)
            \div vi.fps_numerator
    ELSE 0

FramesFromAudioSamples(vi, samples) ==
    IF vi.fps_denominator # 0 /\ HasAudio(vi)
    THEN (samples * vi.fps_numerator)
            \div (vi.fps_denominator * vi.audio_samples_per_second)
    ELSE 0

(***************************************************************************)
(* AvfsAvi2File::LocateFrameSamples and Init                               *)
(***************************************************************************)

\* f carries vi, firstAudFramePackCount and fileSampleCount.
LocateFrameSamples(f, frame, frameCount) ==
    LET startFrame == IF frame # 0
                      THEN frame + f.firstAudFramePackCount ELSE frame
        endFrame   == IF frame + frameCount # 0
                      THEN frame + frameCount + f.firstAudFramePackCount
                      ELSE frame + frameCount
        startSample == IF f.fileSampleCount # 0
                       THEN Min(AudioSamplesFromFrames(f.vi, startFrame),
                                f.fileSampleCount)
                       ELSE 0
        endSample   == IF f.fileSampleCount # 0
                       THEN Min(AudioSamplesFromFrames(f.vi, endFrame),
                                f.fileSampleCount)
                       ELSE 0
    IN [start |-> startSample, count |-> endSample - startSample]

FrameSampleCount(f, frame) == LocateFrameSamples(f, frame, 1).count

\* Setup video attributes.
VideoSetup(vi) ==
    LET ok == vi.vidType # "none" /\ vi.num_frames # 0 /\ vi.bmpSize # 0 IN
    [vidFrameCount     |-> IF ok THEN vi.num_frames ELSE 0,
     frameVidDataSize  |-> IF ok THEN vi.bmpSize ELSE 0,
     frameVidAlignSize |-> IF ok THEN RiffAlignUp(vi.bmpSize) - vi.bmpSize
                           ELSE 0,
     frameVidFcc       |-> IF ok /\ vi.vidType = "DIB "
                           THEN avfsAvi2VidRgbFcc ELSE avfsAvi2VidCompFcc]

\* while (audFrameCount && FrameSampleCount(audFrameCount-1) == 0)
RECURSIVE TrimAudFrames(_, _)
TrimAudFrames(f, audFrameCount) ==
    IF audFrameCount # 0 /\ FrameSampleCount(f, audFrameCount - 1) = 0
    THEN TrimAudFrames(f, audFrameCount - 1)
    ELSE audFrameCount

\* A preload of the frames of half a second, rounded up
FirstAudFramePackCount_CeilHalf(vi) ==
    (vi.fps_numerator + 2 * vi.fps_denominator - 1)
        \div (vi.fps_denominator * 2)

\* Preload extra .5 sec worth of audio samples with first frame:
\* unsigned(fps_numerator+fps_denominator-1)/(unsigned(fps_denominator)*2)
FirstAudFramePackCount(vi) ==
    (vi.fps_numerator + vi.fps_denominator - 1)
        \div (vi.fps_denominator * 2)

\* Setup audio attributes; v is the outcome of VideoSetup.
AudioSetup(vi, v, noInterleaveVar) ==
    LET ok == HasAudio(vi) /\ vi.sampleSize # 0 /\ vi.num_audio_samples # 0
        none == [sampleSize |-> 0, fileSampleCount |-> 0,
                 frameAudHdrSize |-> 0, maxFrameAudDataSize |-> 0,
                 audFrameCount |-> 0, durFrameCount |-> v.vidFrameCount,
                 fileFrameCount |-> v.vidFrameCount,
                 firstAudFramePackCount |-> 0, noInterleave |-> FALSE]
    IN
    IF ~ok THEN none
    ELSE
    LET perFrame == AudioSamplesFromFrames(vi, 1)
        count0 == FramesFromAudioSamples(vi,
                      vi.num_audio_samples + perFrame - 1)
        count1 == IF count0 = 0 THEN 1 ELSE count0
        first  == IF ~noInterleaveVar THEN FirstAudFramePackCount(vi)
                  ELSE 0
        g      == [vi |-> vi, firstAudFramePackCount |-> first,
                   fileSampleCount |-> vi.num_audio_samples]
        count2 == IF ~noInterleaveVar THEN TrimAudFrames(g, count1)
                  ELSE count1
    IN [sampleSize |-> vi.sampleSize,
        fileSampleCount |-> vi.num_audio_samples,
        frameAudHdrSize |-> RiffTagSize,
        maxFrameAudDataSize |-> RiffAlignUp((perFrame + 1) * vi.sampleSize),
        audFrameCount |-> count2,
        durFrameCount |-> Max(v.vidFrameCount, count1),
        fileFrameCount |-> Max(v.vidFrameCount, count2),
        firstAudFramePackCount |-> first,
        noInterleave |-> noInterleaveVar]

\* The divisor and the subtrahend of the maxSegFrameCount computations.
SegFrameCost(v, a) ==
    RiffTagSize + a.maxFrameAudDataSize + RiffTagSize + v.frameVidDataSize
    + v.frameVidAlignSize + Avi2IndxEntrySize * 2 + Avi2OldIndxEntrySize * 2

SegFixedCost(a) ==
    a.firstAudFramePackCount * a.maxFrameAudDataSize
    + indxPrePadSize + indxPostPadSize

\* (avfsAvi2Max4GbDataLstSize - fixed) / cost, computed from the half of the
\* constant: 2H - x = 2 (H div d) d + (2 (H mod d) - x).
\* 2 (H mod d) - x lies below 2 d; it is compared, not computed, where it
\* would pass 2^31.
MaxSegFrameCount4Gb(v, a) ==
    LET d == SegFrameCost(v, a)
        h == avfsAvi2Max4GbDataLstSizeHalf
        r == h % d
        t == r - SegFixedCost(a)
    IN IF t >= d - r THEN 2 * (h \div d) + 1
       ELSE 2 * (h \div d) + ((t + r) \div d)

MaxSegFrameCountSmall(v, a) ==
    (avfsAvi2MaxDataLstSize - SegFixedCost(a)) \div SegFrameCost(v, a)

\* An index entry that records the start of the chunk's RiffTag
IndxEntryOffset_ChunkStart(segSize, segDataSize) == segSize + segDataSize

\* The offset an ix00/ix01 entry records for a chunk at segDataSize.
IndxEntryOffset(segSize, segDataSize) == segSize + segDataSize + RiffTagSize

\* dwFlags of an idx1 entry
AVIIF_KEYFRAME == 16

\* oldIndxEnts[oldi].dwOffset: segSize is the size of the header at this
\* point, segDataSize the movi payload before the chunk.
OldIndxEntryOffset_PastTag(segSize, segDataSize) ==
    segSize + segDataSize + RiffTagSize

OldIndxEntryOffset(segSize, segDataSize) == segSize + segDataSize

\* A cb that counts the RiffTag too
SegRiffCb_WithTag(segSize) == segSize

\* The cb of the RIFF list that opens a segment.
SegRiffCb(segSize) == segSize - RiffTagSize

\* The counts and the header size of segment segi, which starts at frame
\* segStartFrame.
SegCounts(f, segi, segStartFrame) ==
    LET segFrameCount == Min(f.fileFrameCount - segStartFrame,
                             f.maxSegFrameCount)
        vid0 == IF segStartFrame < f.vidFrameCount
                THEN f.vidFrameCount - segStartFrame ELSE 0
        aud0 == IF segStartFrame < f.audFrameCount
                THEN f.audFrameCount - segStartFrame ELSE 0
        aud1 == Min(aud0, segFrameCount)
        pack == f.noInterleave /\ aud1 # 0
    IN [segi |-> segi,
        segStartFrame |-> segStartFrame,
        segFrameCount |-> segFrameCount,
        segVidFrameCount |-> Min(vid0, segFrameCount),
        segAudFrameCount |-> IF pack THEN 1 ELSE aud1,
        segLastAudFramePackCount |-> IF pack THEN aud1 - 1 ELSE 0,
        segDurFrameCount |-> IF segi + 1 = f.fileSegCount
                             THEN f.durFrameCount - segStartFrame
                             ELSE segFrameCount,
        segHdrSize |-> IF segi = 0 THEN Seg0HdrSize ELSE SegNHdrSize]

\* The audio chunk of frame segFrame in ix01, idx1 and segDataSize.
AddAudioEntry(sg, acc, frameAudDataSize) ==
    [acc EXCEPT
        !.audEnts = Append(@,
            [dwOffset |-> IndxEntryOffset(sg.segHdrSize, acc.segDataSize),
             dwSize   |-> frameAudDataSize]),
        !.oldEnts = IF sg.segi = 0
            THEN Append(@, [dwChunkId |-> avfsAvi2AudFcc,
                            dwFlags   |-> AVIIF_KEYFRAME,
                            dwOffset  |-> OldIndxEntryOffset(sg.segHdrSize,
                                                            acc.segDataSize),
                            dwSize    |-> frameAudDataSize])
            ELSE @,
        !.segDataSize = @ + RiffTagSize + RiffAlignUp(frameAudDataSize)]

\* The video chunk of frame segFrame in ix00, idx1 and segDataSize.
AddVideoEntry(f, sg, acc) ==
    [acc EXCEPT
        !.vidEnts = Append(@,
            [dwOffset |-> IndxEntryOffset(sg.segHdrSize, acc.segDataSize),
             dwSize   |-> f.frameVidDataSize]),
        !.oldEnts = IF sg.segi = 0
            THEN Append(@, [dwChunkId |-> f.frameVidFcc,
                            dwFlags   |-> AVIIF_KEYFRAME,
                            dwOffset  |-> OldIndxEntryOffset(sg.segHdrSize,
                                                            acc.segDataSize),
                            dwSize    |-> f.frameVidDataSize])
            ELSE @,
        !.segDataSize = @ + RiffTagSize + f.frameVidDataSize
                          + f.frameVidAlignSize]

\* One pass of the per frame loop.  acc: [segDataSize, frameIndx, vidEnts,
\* audEnts, oldEnts].
AddFrame(f, sg, segFrame, acc) ==
    IF segFrame < sg.segAudFrameCount
    THEN AddAudioEntry(sg, acc,
             LocateFrameSamples(f, sg.segStartFrame + segFrame,
                 IF segFrame + 1 = sg.segAudFrameCount
                 THEN sg.segLastAudFramePackCount + 1 ELSE 1).count
             * f.sampleSize)
    ELSE acc

AddFrameVideo(f, sg, segFrame, acc) ==
    IF segFrame < sg.segVidFrameCount THEN AddVideoEntry(f, sg, acc) ELSE acc

\* The per frame loop that builds frameIndx, ix00, ix01 and idx1 of a segment.
RECURSIVE BuildFrames(_, _, _, _)
BuildFrames(f, sg, segFrame, acc) ==
    IF segFrame >= sg.segFrameCount THEN acc
    ELSE BuildFrames(f, sg, segFrame + 1,
            AddFrameVideo(f, sg, segFrame,
                AddFrame(f, sg, segFrame,
                    [acc EXCEPT !.frameIndx = Append(@, acc.segDataSize)])))

\* The Seg of a segment, and its entries in the two super indexes of segment
\* 0, from the segment's counts and the outcome fr of its per frame loop.
\* samples is the number of samples of the segment's audio.
SegRecord(f, fileSize, sg, fr, samples) ==
    LET segVidIndxSize == IndxEntsOffset
                          + sg.segVidFrameCount * Avi2IndxEntrySize
        segAudIndxSize == IF f.fileSampleCount # 0
                          THEN IndxEntsOffset
                               + sg.segAudFrameCount * Avi2IndxEntrySize
                          ELSE 0
        segOldIndxSize == IF sg.segi = 0
                          THEN OldIndxEntsOffset
                               + (sg.segVidFrameCount + sg.segAudFrameCount)
                                 * Avi2OldIndxEntrySize
                          ELSE 0
        sizeAtVidIndx == sg.segHdrSize + fr.segDataSize + indxPrePadSize
        sizeAtAudIndx == sizeAtVidIndx + segVidIndxSize
        sizeAtOldIndx == sizeAtAudIndx + segAudIndxSize
        segSize == sizeAtOldIndx + segOldIndxSize + indxPostPadSize
    IN [seg |->
          [startOffset |-> fileSize,
           startFrame |-> sg.segStartFrame,
           vidFrameCount |-> sg.segVidFrameCount,
           audFrameCount |-> sg.segAudFrameCount,
           frameCount |-> sg.segFrameCount,
           lastAudFramePackCount |-> sg.segLastAudFramePackCount,
           hdrSize |-> sg.segHdrSize,
           dataSize |-> fr.segDataSize,
           vidIndxSize |-> segVidIndxSize,
           audIndxSize |-> segAudIndxSize,
           oldIndxSize |-> segOldIndxSize,
           segSize |-> segSize,
           frameIndx |-> fr.frameIndx,
           vidIndx |-> [fcc |-> avfsAvi2VidIndxFcc,
                        cb |-> segVidIndxSize - RiffTagSize,
                        nEntriesInUse |-> sg.segVidFrameCount,
                        dwChunkId |-> f.frameVidFcc,
                        qwBaseOffsetLow |-> Low32(fileSize),
                        qwBaseOffsetHigh |-> High32(fileSize),
                        ents |-> fr.vidEnts],
           audIndx |-> IF f.fileSampleCount # 0
                       THEN [fcc |-> avfsAvi2AudIndxFcc,
                             cb |-> segAudIndxSize - RiffTagSize,
                             nEntriesInUse |-> sg.segAudFrameCount,
                             dwChunkId |-> avfsAvi2AudFcc,
                             qwBaseOffsetLow |-> Low32(fileSize),
                             qwBaseOffsetHigh |-> High32(fileSize),
                             ents |-> fr.audEnts]
                       ELSE [fcc |-> 0, cb |-> 0, nEntriesInUse |-> 0,
                             dwChunkId |-> 0, qwBaseOffsetLow |-> 0,
                             qwBaseOffsetHigh |-> 0, ents |-> << >>],
           oldIndx |-> [cb |-> IF segOldIndxSize # 0
                               THEN segOldIndxSize - RiffTagSize ELSE 0,
                        ents |-> fr.oldEnts],
           hdr |-> [fcc |-> riffFcc,
                    cb |-> SegRiffCb(segSize),
                    lstFcc |-> IF sg.segi = 0 THEN avi2FileFcc
                               ELSE avi2SegLstFcc,
                    dwTotalFrames |-> IF sg.segi = 0 THEN sg.segDurFrameCount
                                      ELSE 0,
                    dataLstCb |-> sizeAtOldIndx
                                  - (IF sg.segi = 0 THEN Seg0DataLstOffset
                                     ELSE SegNDataLstOffset)
                                  - RiffTagSize]],
        vidIndxEnt |-> [qwOffsetLow |-> Low32(fileSize + sizeAtVidIndx),
                        qwOffsetHigh |-> High32(fileSize + sizeAtVidIndx),
                        dwSize |-> IndxEntsOffset
                                   + Avi2IndxEntrySize * sg.segFrameCount,
                        dwDuration |-> sg.segVidFrameCount],
        audIndxEnt |-> [qwOffsetLow |-> Low32(fileSize + sizeAtAudIndx),
                        qwOffsetHigh |-> High32(fileSize + sizeAtAudIndx),
                        dwSize |-> IndxEntsOffset
                                   + Avi2IndxEntrySize * sg.segFrameCount,
                        dwDuration |-> samples]]

\* The body of the per segment loop, for the segment with the counts sg.
BuildSeg(f, fileSize, sg) ==
    SegRecord(f, fileSize, sg,
        BuildFrames(f, sg, 0,
            [segDataSize |-> 0, frameIndx |-> << >>, vidEnts |-> << >>,
             audEnts |-> << >>, oldEnts |-> << >>]),
        LocateFrameSamples(f, sg.segStartFrame,
            sg.segAudFrameCount + sg.segLastAudFramePackCount).count)

\* fileSize += segSize; segStartFrame += segFrameCount, with the segment
\* and its super index entries stored.
AddSeg(f, acc, b) ==
    [fileSize |-> acc.fileSize + b.seg.segSize,
     segs |-> Append(acc.segs, b.seg),
     vidIndxEnts |-> Append(acc.vidIndxEnts, b.vidIndxEnt),
     audIndxEnts |-> IF f.fileSampleCount # 0
                     THEN Append(acc.audIndxEnts, b.audIndxEnt)
                     ELSE acc.audIndxEnts,
     segStartFrame |-> acc.segStartFrame + b.seg.frameCount]

\* for (segi = 0; segi < fileSegCount; segi ++)
RECURSIVE BuildSegs(_, _, _)
BuildSegs(f, segi, acc) ==
    IF segi >= f.fileSegCount THEN acc
    ELSE BuildSegs(f, segi + 1,
            AddSeg(f, acc,
                BuildSeg(f, acc.fileSize,
                         SegCounts(f, segi, acc.segStartFrame))))

\* The object once the segments are built.  state is "ready" when Init
\* returns true and "failed" when it returns false.
InitResult(f, built) ==
    [state |-> IF f.vidFrameCount # 0 THEN "ready" ELSE "failed",
     vi |-> f.vi,
     frameVidFcc |-> f.frameVidFcc,
     frameAudHdrSize |-> f.frameAudHdrSize,
     frameVidDataSize |-> f.frameVidDataSize,
     frameVidAlignSize |-> f.frameVidAlignSize,
     vidFrameCount |-> f.vidFrameCount,
     audFrameCount |-> f.audFrameCount,
     fileFrameCount |-> f.fileFrameCount,
     durFrameCount |-> f.durFrameCount,
     sampleSize |-> f.sampleSize,
     firstAudFramePackCount |-> f.firstAudFramePackCount,
     fileSampleCount |-> f.fileSampleCount,
     noInterleave |-> f.noInterleave,
     smallSegments |-> f.smallSegments,
     fileSegCount |-> f.fileSegCount,
     fileSize |-> built.fileSize,
     segs |-> built.segs,
     vidIndxEnts |-> built.vidIndxEnts,
     audIndxEnts |-> built.audIndxEnts]

InitSegs(f) ==
    InitResult(f, BuildSegs(f, 0,
        [fileSize |-> 0, segs |-> << >>, vidIndxEnts |-> << >>,
         audIndxEnts |-> << >>, segStartFrame |-> 0]))

\* The fields and locals of Init before the per segment loop.
\* smallSegments is the script's AVFS_AVI_SmallSegments as Init read it.
InitFields(vi, v, a, maxSegFrameCount, smallSegments) ==
    [vi |-> vi,
     frameVidFcc |-> v.frameVidFcc,
     frameAudHdrSize |-> a.frameAudHdrSize,
     frameVidDataSize |-> v.frameVidDataSize,
     frameVidAlignSize |-> v.frameVidAlignSize,
     vidFrameCount |-> v.vidFrameCount,
     audFrameCount |-> a.audFrameCount,
     fileFrameCount |-> a.fileFrameCount,
     durFrameCount |-> a.durFrameCount,
     sampleSize |-> a.sampleSize,
     firstAudFramePackCount |-> a.firstAudFramePackCount,
     fileSampleCount |-> a.fileSampleCount,
     fileSegCount |->
        IF v.vidFrameCount = 0 THEN 0
        ELSE Min((a.fileFrameCount + maxSegFrameCount - 1)
                    \div maxSegFrameCount,
                 avfsAvi2MaxSuperIndxEntryCount),
     maxSegFrameCount |-> maxSegFrameCount,
     smallSegments |-> smallSegments,
     noInterleave |-> a.noInterleave]

\* maxSegFrameCount: 0 without video, else the 4GB or the small segment
\* count.
MaxSegFrameCount(v, a, smallSegments) ==
    IF v.vidFrameCount = 0 THEN 0
    ELSE IF smallSegments THEN MaxSegFrameCountSmall(v, a)
    ELSE MaxSegFrameCount4Gb(v, a)

InitCounts(vi, v, a, smallSegments) ==
    InitSegs(InitFields(vi, v, a, MaxSegFrameCount(v, a, smallSegments),
                        smallSegments))

InitAudio(vi, v, noInterleaveVar, smallSegments) ==
    InitCounts(vi, v, AudioSetup(vi, v, noInterleaveVar), smallSegments)

\* AvfsAvi2File::Init: the fields of the object afterwards.
AvfsAvi2File_Init(vi, noInterleaveVar, smallSegments) ==
    InitAudio(vi, VideoSetup(vi), noInterleaveVar, smallSegments)

(***************************************************************************)
(* AvfsAvi2File::ReadMedia                                                 *)
(*                                                                         *)
(* The buffer is a sequence of runs <<kind, fcc, id, from, len>>, each the *)
(* len bytes that start at byte from of a source:                          *)
(*   "hdr"   the header structure of segment id                            *)
(*   "tag"   a RiffTag with the given fcc and cb = id                      *)
(*   "aud"   the audio stream (from counts bytes from sample 0)            *)
(*   "vid"   the packed video data of frame id                             *)
(*   "ix00", "ix01", "idx1"   the index chunks of segment id               *)
(*   "zero"  zero bytes;  "undef"  bytes the call did not write            *)
(***************************************************************************)
Run(kind, fcc, id, from, len) == <<kind, fcc, id, from, len>>

\* The len bytes of a run that start at its byte from; zero bytes have no
\* position.
SubRun(r, from, len) ==
    <<r[1], r[2], r[3], IF r[1] = "zero" THEN 0 ELSE r[4] + from, len>>

\* avs->GetAudio(log, buf, start, count): count samples from sample start.
GetAudio(f, start, count) ==
    Run("aud", 0, 0, start * f.sampleSize, count * f.sampleSize)

\* GetFrameData(log, buffer, n, offset, size)
GetFrameData(n, offset, len) == Run("vid", 0, n, offset, len)

\* buffer += partSize; remainingSize -= partSize, after partSize bytes were
\* written.
Emit(s, r, partSize) ==
    [s EXCEPT !.buffer = IF partSize > 0 THEN Append(@, r) ELSE @,
              !.remainingSize = @ - partSize]

\* success = success && <fetch>; buffer += partSize; remainingSize -=
\* partSize: a fetch of the kinds in s.failing returns false and leaves the
\* bytes it was to write undefined.
Fetch(s, kind, r, partSize) ==
    LET ok == kind \notin s.failing IN
    [Emit(s, IF ok THEN r ELSE Run("undef", 0, 0, 0, partSize), partSize)
       EXCEPT !.success = @ /\ ok,
              !.fetchFailed = @ \/ (partSize > 0 /\ ~ok)]

\* b = 1; while (b < n) b <<= 1;
RECURSIVE PowerOfTwoAtLeast(_, _)
PowerOfTwoAtLeast(b, n) == IF b < n THEN PowerOfTwoAtLeast(2 * b, n) ELSE b

\* while ((b >>= 1) != 0) { i |= b; if (i >= n || keys[i] > target) i &= ~b; }
RECURSIVE SearchDown(_, _, _, _)
SearchDown(b, i, keys, target) ==
    LET b1 == b \div 2 IN
    IF b1 = 0 THEN i
    ELSE IF i + b1 >= Len(keys) \/ keys[i + b1 + 1] > target
         THEN SearchDown(b1, i, keys, target)
         ELSE SearchDown(b1, i + b1, keys, target)

\* A search that always answers the first table entry.
BinarySearch_First(keys, target) == 0

\* The index of the last table entry that is not above the target.
BinarySearch(keys, target) ==
    SearchDown(PowerOfTwoAtLeast(1, Len(keys)), 0, keys, target)

\* A static blob (segment header, RiffTag, index chunk): skip it, or memcpy
\* the part of it the read needs.
CopyBlob(s, blobSize, r) ==
    IF s.offset >= blobSize
    THEN [s EXCEPT !.offset = @ - blobSize]
    ELSE IF s.remainingSize # 0
         THEN LET partSize == Min(blobSize - s.offset, s.remainingSize) IN
              [Emit(s, SubRun(r, s.offset, partSize), partSize)
                 EXCEPT !.offset = 0]
         ELSE [s EXCEPT !.offset = 0]

\* Deal with ragged front.
AudioRaggedFront(f, s) ==
    LET extraOffset == s.offset % f.sampleSize IN
    IF s.remainingSize # 0 /\ extraOffset # 0
    THEN LET partSize == Min(f.sampleSize - extraOffset, s.remainingSize)
             sampleScratch == GetAudio(f, s.offset \div f.sampleSize, 1)
         IN [Fetch(s, "aud", SubRun(sampleScratch, extraOffset, partSize),
                   partSize)
                EXCEPT !.offset = @ + partSize]
    ELSE s

\* Do sample aligned bulk of transfer.
AudioBulk(f, s, startSample, audDataSize) ==
    IF s.offset < audDataSize /\ s.remainingSize >= f.sampleSize
    THEN LET whole == audDataSize - s.offset
             partSize == IF whole > s.remainingSize
                         THEN s.remainingSize
                              - (s.remainingSize % f.sampleSize)
                         ELSE whole
             count   == partSize \div f.sampleSize
             written == count * f.sampleSize
             s1 == Fetch(s, "aud",
                         GetAudio(f, startSample
                                     + (s.offset \div f.sampleSize), count),
                         written)
             s2 == Emit(s1, Run("undef", 0, 0, 0, partSize - written),
                        partSize - written)
         IN [s2 EXCEPT !.offset = @ + partSize]
    ELSE s

\* Deal with ragged tail.
AudioRaggedTail(f, s, startSample, audDataSize) ==
    IF s.offset < audDataSize /\ s.remainingSize # 0
    THEN LET sampleScratch ==
                 GetAudio(f, startSample + (s.offset \div f.sampleSize), 1)
         IN Fetch(s, "aud", SubRun(sampleScratch, 0, s.remainingSize),
                  s.remainingSize)
    ELSE s

\* Copy any needed frame audio data.
CopyAudioData(f, s, startSample, audDataSize) ==
    IF s.offset >= audDataSize
    THEN [s EXCEPT !.offset = @ - audDataSize]
    ELSE [AudioRaggedTail(f,
              AudioBulk(f, AudioRaggedFront(f, s), startSample, audDataSize),
              startSample, audDataSize)
            EXCEPT !.offset = 0]

\* Pad audio or video data up to riff alignment:
\* memset(buffer, 0, remainingSize); buffer += remainingSize;
\* remainingSize = 0.
CopyAlignPad(s, alignSize) ==
    IF s.offset >= alignSize
    THEN [s EXCEPT !.offset = @ - alignSize]
    ELSE IF s.remainingSize # 0
         THEN [Emit(s, Run("zero", 0, 0, 0, s.remainingSize),
                    s.remainingSize)
                 EXCEPT !.offset = 0]
         ELSE [s EXCEPT !.offset = 0]

\* Copy needed portion of frame video data.
CopyVideoData(f, s, n) ==
    IF s.offset >= f.frameVidDataSize
    THEN [s EXCEPT !.offset = @ - f.frameVidDataSize]
    ELSE IF s.remainingSize # 0
         THEN LET partSize == Min(f.frameVidDataSize - s.offset,
                                  s.remainingSize) IN
              [Fetch(s, "vid", GetFrameData(n, s.offset, partSize), partSize)
                 EXCEPT !.offset = 0]
         ELSE [s EXCEPT !.offset = 0]

\* The audio chunk of a frame: tag, data, pad.
CopyFrameAudio(f, seg, s, segFrame) ==
    LET loc == LocateFrameSamples(f, seg.startFrame + segFrame,
                   IF segFrame + 1 = seg.audFrameCount
                   THEN seg.lastAudFramePackCount + 1 ELSE 1)
        audDataSize  == loc.count * f.sampleSize
        audAlignSize == RiffAlignUp(audDataSize) - audDataSize
        s1 == CopyBlob(s, RiffTagSize,
                       Run("tag", avfsAvi2AudFcc, audDataSize, 0, RiffTagSize))
        s2 == CopyAudioData(f, s1, loc.start, audDataSize)
    IN CopyAlignPad(s2, audAlignSize)

\* The video chunk of a frame: tag, data, pad.
CopyFrameVideo(f, seg, s, segFrame) ==
    LET s1 == CopyBlob(s, RiffTagSize,
                       Run("tag", f.frameVidFcc, f.frameVidDataSize, 0,
                           RiffTagSize))
        s2 == CopyVideoData(f, s1, seg.startFrame + segFrame)
    IN CopyAlignPad(s2, f.frameVidAlignSize)

\* while (remainingSize && segFrame < seg->frameCount)
RECURSIVE FrameLoop(_, _, _, _)
FrameLoop(f, seg, s, segFrame) ==
    IF s.remainingSize # 0 /\ segFrame < seg.frameCount
    THEN LET s1 == IF segFrame < seg.audFrameCount
                   THEN CopyFrameAudio(f, seg, s, segFrame) ELSE s
             s2 == IF segFrame < seg.vidFrameCount
                   THEN CopyFrameVideo(f, seg, s1, segFrame) ELSE s1
         IN FrameLoop(f, seg, s2, segFrame + 1)
    ELSE s

\* The frame data of a segment: binary search for the frame containing the
\* start of the needed data, then the frames one at a time.  Past the data
\* the code sets segFrame to UINT_MAX, which is below no frame count; the
\* model skips the loop.
CopyFrames(f, seg, s) ==
    IF s.offset >= seg.dataSize
    THEN [s EXCEPT !.offset = @ - seg.dataSize]
    ELSE LET segFrame == BinarySearch(seg.frameIndx, s.offset) IN
         FrameLoop(f, seg,
                   [s EXCEPT !.offset = @ - seg.frameIndx[segFrame + 1]],
                   segFrame)

\* Copy any needed portion of a pre-index or post-index pad: a JUNK tag and
\* zeros.
CopyJunkPad(s, padSize) ==
    IF s.offset >= padSize
    THEN [s EXCEPT !.offset = @ - padSize]
    ELSE LET s1 == CopyBlob(s, RiffTagSize,
                       Run("tag", riffJunkFcc, padSize - RiffTagSize, 0,
                           RiffTagSize))
             s2 == IF s1.remainingSize # 0
                   THEN LET partSize == Min(padSize - RiffTagSize - s1.offset,
                                            s1.remainingSize) IN
                        Emit(s1, Run("zero", 0, 0, 0, partSize), partSize)
                   ELSE s1
         IN [s2 EXCEPT !.offset = 0]

\* One pass of the loop over the segments containing needed data.
CopySegment(f, s, segi) ==
    LET seg == f.segs[segi + 1]
        s1 == CopyBlob(s, seg.hdrSize, Run("hdr", 0, segi, 0, seg.hdrSize))
        s2 == CopyFrames(f, seg, s1)
        s3 == CopyJunkPad(s2, indxPrePadSize)
        s4 == CopyBlob(s3, seg.vidIndxSize,
                       Run("ix00", 0, segi, 0, seg.vidIndxSize))
        s5 == CopyBlob(s4, seg.audIndxSize,
                       Run("ix01", 0, segi, 0, seg.audIndxSize))
        s6 == CopyBlob(s5, seg.oldIndxSize,
                       Run("idx1", 0, segi, 0, seg.oldIndxSize))
        s7 == CopyJunkPad(s6, indxPostPadSize)
    IN [s7 EXCEPT !.offset = 0]

\* while (success && remainingSize); segs[segi] past the table is undefined.
RECURSIVE SegmentLoop(_, _, _)
SegmentLoop(f, s, segi) ==
    IF s.success /\ s.remainingSize # 0
    THEN IF segi >= f.fileSegCount
         THEN [s EXCEPT !.ub = TRUE]
         ELSE SegmentLoop(f, CopySegment(f, s, segi), segi + 1)
    ELSE s

RECURSIVE StartOffsets(_, _)
StartOffsets(segs, i) ==
    IF i > Len(segs) THEN << >>
    ELSE <<segs[i].startOffset>> \o StartOffsets(segs, i + 1)

\* ReadMedia(log, inFileOffset, inBuffer, inRequestedSize) when the fetches
\* of the kinds in failing fail: what it wrote to inBuffer and what it
\* returns.  segi is the segment the binary search selected, remainingSize
\* what was left to write when the loop ended.
ReadMediaFetch(f, inFileOffset, inRequestedSize, failing) ==
    LET segi == BinarySearch(StartOffsets(f.segs, 1), inFileOffset)
        s == SegmentLoop(f,
                 [buffer |-> << >>, remainingSize |-> inRequestedSize,
                  offset |-> inFileOffset - f.segs[segi + 1].startOffset,
                  success |-> TRUE, ub |-> FALSE,
                  failing |-> failing, fetchFailed |-> FALSE],
                 segi)
    IN [state |-> IF s.fetchFailed THEN "failed" ELSE "done",
        fileOffset |-> inFileOffset,
        requestedSize |-> inRequestedSize, buffer |-> s.buffer,
        success |-> s.success, ub |-> s.ub,
        segi |-> segi, remainingSize |-> s.remainingSize]

\* The call when every fetch succeeds.
ReadMedia(f, inFileOffset, inRequestedSize) ==
    ReadMediaFetch(f, inFileOffset, inRequestedSize, {})

(***************************************************************************)
(* The materialised file image the index chunks describe, as runs.         *)
(***************************************************************************)
ZeroRun(len) == IF len > 0 THEN <<Run("zero", 0, 0, 0, len)>> ELSE << >>

\* The chunks of the frames k .. of a segment; audPos is the number of audio
\* bytes the chunks before hold.
RECURSIVE FrameImage(_, _, _, _)
FrameImage(f, seg, k, audPos) ==
    IF k > seg.frameCount THEN << >>
    ELSE
    LET hasAud == k <= Len(seg.audIndx.ents)
        hasVid == k <= Len(seg.vidIndx.ents)
        audLen == IF hasAud THEN seg.audIndx.ents[k].dwSize ELSE 0
        vidLen == IF hasVid THEN seg.vidIndx.ents[k].dwSize ELSE 0
        audChunk == IF hasAud
                    THEN <<Run("tag", avfsAvi2AudFcc, audLen, 0, RiffTagSize),
                           Run("aud", 0, 0, audPos, audLen)>>
                         \o ZeroRun(RiffAlignUp(audLen) - audLen)
                    ELSE << >>
        vidChunk == IF hasVid
                    THEN <<Run("tag", f.frameVidFcc, vidLen, 0, RiffTagSize),
                           Run("vid", 0, seg.startFrame + k - 1, 0, vidLen)>>
                         \o ZeroRun(RiffAlignUp(vidLen) - vidLen)
                    ELSE << >>
    IN audChunk \o vidChunk \o FrameImage(f, seg, k + 1, audPos + audLen)

RECURSIVE AudioBytes(_, _)
AudioBytes(ents, k) ==
    IF k > Len(ents) THEN 0 ELSE ents[k].dwSize + AudioBytes(ents, k + 1)

JunkImage(padSize) ==
    <<Run("tag", riffJunkFcc, padSize - RiffTagSize, 0, RiffTagSize)>>
    \o ZeroRun(padSize - RiffTagSize)

BlobImage(kind, segi, len) ==
    IF len > 0 THEN <<Run(kind, 0, segi, 0, len)>> ELSE << >>

RECURSIVE SegImage(_, _, _)
SegImage(f, i, audPos) ==
    IF i > Len(f.segs) THEN << >>
    ELSE LET seg == f.segs[i] IN
         BlobImage("hdr", i - 1, seg.hdrSize)
         \o FrameImage(f, seg, 1, audPos)
         \o JunkImage(indxPrePadSize)
         \o BlobImage("ix00", i - 1, seg.vidIndxSize)
         \o BlobImage("ix01", i - 1, seg.audIndxSize)
         \o BlobImage("idx1", i - 1, seg.oldIndxSize)
         \o JunkImage(indxPostPadSize)
         \o SegImage(f, i + 1, audPos + AudioBytes(seg.audIndx.ents, 1))

Image(f) == SegImage(f, 1, 0)

\* The runs of the bytes [off, off + len) of a sequence of runs.
RECURSIVE Slice(_, _, _)
Slice(runs, off, len) ==
    IF len = 0 \/ runs = << >> THEN << >>
    ELSE LET r == Head(runs) IN
         IF off >= r[5] THEN Slice(Tail(runs), off - r[5], len)
         ELSE LET n == Min(r[5] - off, len) IN
              <<SubRun(r, off, n)>> \o Slice(Tail(runs), 0, len - n)

\* Two runs that are one run: the same source, the second continuing the
\* first; zero bytes have no position.
Joins(a, b) ==
    /\ a[1] = b[1] /\ a[2] = b[2] /\ a[3] = b[3]
    /\ (a[1] = "zero" \/ b[4] = a[4] + a[5])

RECURSIVE Normalise(_)
Normalise(runs) ==
    IF Len(runs) < 2 THEN runs
    ELSE IF Joins(runs[1], runs[2])
         THEN Normalise(<<SubRun(runs[1], 0, runs[1][5] + runs[2][5])>>
                        \o SubSeq(runs, 3, Len(runs)))
         ELSE <<runs[1]>> \o Normalise(Tail(runs))

RECURSIVE Boundaries(_, _)
Boundaries(runs, pos) ==
    IF runs = << >> THEN {pos}
    ELSE {pos} \cup Boundaries(Tail(runs), pos + Head(runs)[5])

\* The first 12 bytes of the header structure of a segment in memory.
HdrHead(seg) == LE32(seg.hdr.fcc) \o LE32(seg.hdr.cb) \o LE32(seg.hdr.lstFcc)

(***************************************************************************)
(* The calls on the file                                                   *)
(***************************************************************************)
ReadDeltas == {-1, 0, 1}
ReadSizes  == {1, 3, 12}

\* The fetches that fail during one call: none, GetAudio, GetFrameData.
FetchFailures == {{}, {"aud"}, {"vid"}}

\* The reads the model issues: around every boundary of the layout, a few
\* bytes or up to the end of the file.
ReadOffsets(f) ==
    { b + d : b \in Boundaries(Image(f), 0), d \in ReadDeltas }
    \cap (0 .. f.fileSize - 1)

AviInit ==
    /\ avi = NoFile
    /\ \E vi \in Clips, noInterleaveVar \in BOOLEAN, smallSegments \in BOOLEAN :
          avi' = AvfsAvi2File_Init(vi, noInterleaveVar, smallSegments)
    /\ rd' = NoRead
    /\ UNCHANGED <<mapVars, reqVars, audVars, depVars>>

\* One read of the file; its precondition is the guarantee of the caller
\* (inRequestedSize # 0, inFileOffset + inRequestedSize <= fileSize).
DoReadMedia ==
    /\ avi.state = "ready"
    /\ rd = NoRead
    /\ \E off \in ReadOffsets(avi) :
         \E len \in (ReadSizes \cup {avi.fileSize - off}) :
            /\ off + len <= avi.fileSize
            /\ \E failing \in FetchFailures :
                  rd' = ReadMediaFetch(avi, off, len, failing)
    /\ UNCHANGED avi
    /\ UNCHANGED <<mapVars, reqVars, audVars, depVars>>

Release ==
    /\ avi # NoFile
    /\ avi' = NoFile
    /\ rd' = NoRead
    /\ UNCHANGED <<mapVars, reqVars, audVars, depVars>>

NextAvi ==
    \/ AviInit
    \/ DoReadMedia
    \/ Release

SpecAvi == Init /\ [][NextAvi]_vars

(***************************************************************************)
(* Part 3: frame requests (src/core/vsapi.cpp)                             *)
(***************************************************************************)
MaxQueue     == 1
MaxNumFrames == 2

\* The nodes differ in their frame count only; 0 is a node of unknown length.
NodeNumFrames == 0 .. MaxNumFrames
\* The frame numbers a caller asks for: below, inside and above the clip.
RequestedN    == -1 .. MaxNumFrames + 1

\* new FrameContext(n, ...), after setError(...) when error is TRUE.
FrameContext(n, error) == [n |-> n, error |-> error]

\* requestFrameFilter: the FrameContext it passes to frameCtx->requestFrame.
requestFrameFilter(n, numFrames) ==
    LET m == IF n >= numFrames THEN numFrames - 1 ELSE n
    IN  FrameContext(m, FALSE)

\* getFrameAsync: the FrameContext it passes to clip->clip->getFrame.
getFrameAsync(n, numFrames) ==
    IF n < 0 \/ (numFrames # 0 /\ n >= numFrames)
    THEN FrameContext(n, TRUE)
    ELSE FrameContext(n, FALSE)

\* The scheduler keeps the contexts it is given in arrival order; beside
\* the context the model records the call that made it.
Enqueue(q, api, n, numFrames, ctx) ==
    Append(q, [api |-> api, req |-> n, numFrames |-> numFrames, ctx |-> ctx])

RequestFrameFilter ==
    /\ Len(queue) < MaxQueue
    /\ \E n \in RequestedN, numFrames \in NodeNumFrames :
          queue' = Enqueue(queue, "requestFrameFilter", n, numFrames,
                           requestFrameFilter(n, numFrames))
    /\ UNCHANGED <<caller, waiter, cbk, pool>>
    /\ UNCHANGED <<mapVars, aviVars, audVars, depVars>>

GetFrameAsync ==
    /\ Len(queue) < MaxQueue
    /\ \E n \in RequestedN, numFrames \in NodeNumFrames :
          queue' = Enqueue(queue, "getFrameAsync", n, numFrames,
                           getFrameAsync(n, numFrames))
    /\ UNCHANGED <<caller, waiter, cbk, pool>>
    /\ UNCHANGED <<mapVars, aviVars, audVars, depVars>>

\* The scheduler takes the oldest context off its queue.
Dispatch ==
    /\ queue # << >>
    /\ queue' = Tail(queue)
    /\ UNCHANGED <<caller, waiter, cbk, pool>>
    /\ UNCHANGED <<mapVars, aviVars, audVars, depVars>>

(***************************************************************************)
(* The synchronous getFrame and frameWaiterCallback                        *)
(***************************************************************************)
\* VSNode::releaseThread / reserveThread: the worker gives its pool slot up
\* and takes it back.
releaseThread(p) == [p EXCEPT !.reserved = @ - 1, !.releaseCalls = @ + 1]
reserveThread(p) == [p EXCEPT !.reserved = @ + 1, !.reserveCalls = @ + 1]

\* What a second lock() by the thread that owns a std::mutex can do: the
\* behaviour is undefined; the thread blocks for ever or the process ends.
RelockOutcomes == {"self_deadlock", "terminated"}

\* GetFrameWaiter g(errorMsg, bufSize); std::unique_lock l(g.b);
\* node->isWorkerThread().
GF_Call ==
    /\ caller.pc = "idle"
    /\ \E n \in 0 .. 1, isWorker \in BOOLEAN, cached \in BOOLEAN :
          caller' = [IdleCaller EXCEPT !.pc = "locked", !.n = n,
                                       !.isWorker = isWorker,
                                       !.cached = cached]
    /\ waiter' = [alive |-> TRUE, owner |-> "caller", r |-> <<"nullptr">>,
                  signalled |-> FALSE]
    /\ UNCHANGED <<queue, cbk, pool>>
    /\ UNCHANGED <<mapVars, aviVars, audVars, depVars>>

\* if (isWorker) node->releaseThread();
GF_ReleaseThread_Always ==
    /\ caller.pc = "locked"
    /\ pool' = releaseThread(pool)
    /\ caller' = [caller EXCEPT !.pc = "released"]
    /\ UNCHANGED <<queue, waiter, cbk>>
    /\ UNCHANGED <<mapVars, aviVars, audVars, depVars>>

GF_ReleaseThread ==
    /\ caller.pc = "locked"
    /\ pool' = IF caller.isWorker THEN releaseThread(pool) ELSE pool
    /\ caller' = [caller EXCEPT !.pc = "released"]
    /\ UNCHANGED <<queue, waiter, cbk>>
    /\ UNCHANGED <<mapVars, aviVars, audVars, depVars>>

\* node->getFrame(new FrameContext(n, ..., &frameWaiterCallback, &g, false)).
\* When the frame is cached the completion is synchronous: the callback
\* runs on the calling thread, and node->getFrame returns after it.  The
\* callback never gets past its lock there (CB_Lock), so neither does the
\* caller get past "in_enqueue".
GF_Enqueue ==
    /\ caller.pc = "released"
    /\ cbk' = [state  |-> "queued", n |-> caller.n,
               thread |-> IF caller.cached THEN "caller" ELSE "worker",
               frame  |-> <<"frame", caller.n>>]
    /\ caller' = [caller EXCEPT
                    !.pc = IF caller.cached THEN "in_enqueue" ELSE "enqueued"]
    /\ UNCHANGED <<queue, waiter, pool>>
    /\ UNCHANGED <<mapVars, aviVars, audVars, depVars>>

\* g.a.wait(l), first half: the mutex is released and the thread blocks.
GF_Wait ==
    /\ caller.pc = "enqueued"
    /\ waiter' = [waiter EXCEPT !.owner = "none"]
    /\ caller' = [caller EXCEPT !.pc = "waiting"]
    /\ UNCHANGED <<queue, cbk, pool>>
    /\ UNCHANGED <<mapVars, aviVars, audVars, depVars>>

\* g.a.wait(l) is woken by notify_one ...
GF_Notified ==
    /\ caller.pc = "waiting"
    /\ waiter.signalled
    /\ waiter' = [waiter EXCEPT !.signalled = FALSE]
    /\ caller' = [caller EXCEPT !.pc = "woken"]
    /\ UNCHANGED <<queue, cbk, pool>>
    /\ UNCHANGED <<mapVars, aviVars, audVars, depVars>>

\* ... or spuriously: wait(l) has no predicate.
GF_SpuriousWake ==
    /\ caller.pc = "waiting"
    /\ ~waiter.signalled
    /\ caller' = [caller EXCEPT !.pc = "woken"]
    /\ UNCHANGED <<queue, waiter, cbk, pool>>
    /\ UNCHANGED <<mapVars, aviVars, audVars, depVars>>

\* g.a.wait(l), second half: the mutex is taken again before wait returns.
GF_Relock ==
    /\ caller.pc = "woken"
    /\ waiter.owner = "none"
    /\ waiter' = [waiter EXCEPT !.owner = "caller"]
    /\ caller' = [caller EXCEPT !.pc = "relocked"]
    /\ UNCHANGED <<queue, cbk, pool>>
    /\ UNCHANGED <<mapVars, aviVars, audVars, depVars>>

\* if (isWorker) node->reserveThread();
GF_ReserveThread ==
    /\ caller.pc = "relocked"
    /\ pool' = IF caller.isWorker THEN reserveThread(pool) ELSE pool
    /\ caller' = [caller EXCEPT !.pc = "reserved"]
    /\ UNCHANGED <<queue, waiter, cbk>>
    /\ UNCHANGED <<mapVars, aviVars, audVars, depVars>>

\* return g.r; l and g go out of scope.
GF_Return ==
    /\ caller.pc = "reserved"
    /\ caller' = [caller EXCEPT !.pc = "returned", !.result = waiter.r]
    /\ waiter' = [waiter EXCEPT !.alive = FALSE, !.owner = "none"]
    /\ UNCHANGED <<queue, cbk, pool>>
    /\ UNCHANGED <<mapVars, aviVars, audVars, depVars>>

\* frameWaiterCallback: std::lock_guard l(g->b).  The scheduler fires it on
\* cbk.thread.  g is the caller's stack object: gone once getFrame returned.
CB_Lock ==
    /\ cbk.state = "queued"
    /\ IF ~waiter.alive
       THEN /\ cbk' = [cbk EXCEPT !.state = "use_after_return"]
            /\ UNCHANGED waiter
       ELSE IF waiter.owner = cbk.thread
       THEN /\ \E o \in RelockOutcomes : cbk' = [cbk EXCEPT !.state = o]
            /\ UNCHANGED waiter
       ELSE /\ waiter.owner = "none"
            /\ waiter' = [waiter EXCEPT !.owner = cbk.thread]
            /\ cbk' = [cbk EXCEPT !.state = "locked"]
    /\ UNCHANGED <<queue, caller, pool>>
    /\ UNCHANGED <<mapVars, aviVars, audVars, depVars>>

\* g->r = frame (and the error text into the caller's buffer).
CB_Store ==
    /\ cbk.state = "locked"
    /\ waiter' = [waiter EXCEPT !.r = cbk.frame]
    /\ cbk' = [cbk EXCEPT !.state = "stored"]
    /\ UNCHANGED <<queue, caller, pool>>
    /\ UNCHANGED <<mapVars, aviVars, audVars, depVars>>

\* g->a.notify_one(): wakes the thread blocked in wait, if there is one.
CB_Notify ==
    /\ cbk.state = "stored"
    /\ waiter' = [waiter EXCEPT !.signalled = (caller.pc = "waiting")]
    /\ cbk' = [cbk EXCEPT !.state = "notified"]
    /\ UNCHANGED <<queue, caller, pool>>
    /\ UNCHANGED <<mapVars, aviVars, audVars, depVars>>

\* The lock_guard goes out of scope.
CB_Unlock ==
    /\ cbk.state = "notified"
    /\ waiter' = [waiter EXCEPT !.owner = "none"]
    /\ cbk' = [cbk EXCEPT !.state = "done"]
    /\ UNCHANGED <<queue, caller, pool>>
    /\ UNCHANGED <<mapVars, aviVars, audVars, depVars>>

GetFrameStep ==
    \/ GF_ReleaseThread
    \/ GF_Enqueue
    \/ GF_Wait
    \/ GF_Notified
    \/ GF_Relock
    \/ GF_ReserveThread
    \/ GF_Return

CallbackStep ==
    \/ CB_Lock
    \/ CB_Store
    \/ CB_Notify
    \/ CB_Unlock

NextFrame ==
    \/ RequestFrameFilter
    \/ GetFrameAsync
    \/ Dispatch
    \/ GF_Call
    \/ GetFrameStep
    \/ GF_SpuriousWake
    \/ CallbackStep

SpecFrame == Init /\ [][NextFrame]_vars

\* Every thread that can take a step takes one; a spurious wake-up may
\* happen but need not.
SpecFrameFair ==
    /\ Init
    /\ [][NextFrame]_vars
    /\ WF_vars(GetFrameStep)
    /\ WF_vars(CallbackStep)

(***************************************************************************)
(* Part 4: the audio filters (src/core/audiofilters.cpp)                   *)
(***************************************************************************)
\* The frame size is scaled down; the filters only compare, divide and
\* take remainders by it.
VS_AUDIO_FRAME_SAMPLES == 4
MaxSamples == 9

BytesPerSample == {2, 4}

\* A byte no one has written: fresh frame memory, or memory outside it.
Undef == <<"undef">>

\* numFrames of a node with numSamples samples.
NumFrames(numSamples) ==
    (numSamples + VS_AUDIO_FRAME_SAMPLES - 1) \div VS_AUDIO_FRAME_SAMPLES

\* VSAudioInfo of a source clip; id tells the clips of a splice apart.
AudioInfo(id, numSamples, bytesPerSample) ==
    [id |-> id, numSamples |-> numSamples, numFrames |-> NumFrames(numSamples),
     bytesPerSample |-> bytesPerSample]

\* The samples frame n of a clip of numSamples samples declares.
FrameLength(numSamples, n) ==
    Min(VS_AUDIO_FRAME_SAMPLES, numSamples - n * VS_AUDIO_FRAME_SAMPLES)

\* One channel of an audio frame: the declared sample count and the bytes
\* of the channel's buffer, which has room for a full frame.
AudioFrame(length, data) == [length |-> length, data |-> data]

FrameBytes(bytesPerSample) == VS_AUDIO_FRAME_SAMPLES * bytesPerSample

\* newAudioFrame: the declared length over memory not yet written.
newAudioFrame(bytesPerSample, length) ==
    AudioFrame(length, [k \in 1 .. FrameBytes(bytesPerSample) |-> Undef])

\* Byte b of sample i of source clip id (testAudioGetframe writes a
\* function of the clip-wide sample number; the model keeps the number).
SampleByte(id, i, b) == <<id, i, b>>

\* Frame n of a source clip (testAudioGetframe, blankAudioGetframe).
SourceFrame(ai, n) ==
    AudioFrame(FrameLength(ai.numSamples, n),
        [k \in 1 .. FrameBytes(ai.bytesPerSample) |->
            IF (k - 1) \div ai.bytesPerSample < FrameLength(ai.numSamples, n)
            THEN SampleByte(ai.id,
                            n * VS_AUDIO_FRAME_SAMPLES
                               + (k - 1) \div ai.bytesPerSample,
                            (k - 1) % ai.bytesPerSample)
            ELSE Undef])

\* A null frame pointer.
NullFrame == [length |-> -1, data |-> << >>]

\* The frame index getFrameFilter looks n up under:
\* if (numFrames && n >= numFrames) n = numFrames - 1;
LookupIndex(n, numFrames) ==
    IF numFrames # 0 /\ n >= numFrames THEN numFrames - 1 ELSE n

\* getFrameFilter: the lookup in the frames the scheduler made available
\* for this activation, which are the ones that were requested.
getFrameFilter(n, ai, node, requested) ==
    LET m == LookupIndex(n, ai.numFrames)
    IN  IF <<node, m>> \in requested /\ m >= 0
        THEN SourceFrame(ai, m)
        ELSE NullFrame

\* The dependency requestFrameFilter(n, node, frameCtx) creates.
Requested(n, ai, node) == <<node, requestFrameFilter(n, ai.numFrames).n>>

\* Read of byte k (from 0) of a buffer; outside the buffer nothing defined.
ByteAt(data, k) == IF k >= 0 /\ k < Len(data) THEN data[k + 1] ELSE Undef

\* memcpy(dst + dstOff, src + srcOff, count), all in bytes.
Memcpy(dst, dstOff, src, srcOff, count) ==
    [k \in 1 .. Len(dst) |->
        IF k - 1 >= dstOff /\ k - 1 < dstOff + count
        THEN ByteAt(src, srcOff + (k - 1 - dstOff))
        ELSE dst[k]]

\* The copy stays inside both buffers.
MemcpyInBounds(dst, dstOff, src, srcOff, count) ==
    /\ count >= 0
    /\ dstOff >= 0 /\ dstOff + count <= Len(dst)
    /\ srcOff >= 0 /\ srcOff + count <= Len(src)

\* One copy into the new frame, in samples: how many, where to, where from
\* and the declared lengths of the two frames.
Copy(dstLength, dstOff, count, srcLength, srcOff) ==
    [dstLength |-> dstLength, dstOff |-> dstOff, count |-> count,
     srcLength |-> srcLength, srcOff |-> srcOff]

\* What one getFrame of a filter gives: the frames it requested in
\* arInitial; the frames it looked up, the copies it made and the frame it
\* returned in arAllFramesReady; and whether it dereferenced a null frame
\* or left a buffer on the way.
FrameResult(n, requested, lookups, copies, frame, ub) ==
    [state |-> "done", n |-> n, requested |-> requested,
     lookups |-> lookups, copies |-> copies, frame |-> frame, ub |-> ub]

(***************************************************************************)
(* AudioReverse                                                            *)
(***************************************************************************)
\* audioReverseCreate: T is int16_t for 2-byte samples, int32_t otherwise.
audioReverseCreate(ai) ==
    [filter |-> "AudioReverse", ai |-> ai, src |-> <<ai>>,
     sizeofT |-> IF ai.bytesPerSample = 2 THEN 2 ELSE 4]

\* arInitial of audioReverseGetFrame.
ReverseRequests(d, n) ==
    LET n1 == d.ai.numFrames - 1 - n
        n2 == Max(d.ai.numFrames - 2 - n, 0)
    IN  {Requested(n1, d.ai, 1)}
        \cup (IF d.ai.numSamples % VS_AUDIO_FRAME_SAMPLES # 0
              THEN {Requested(n2, d.ai, 1)} ELSE {})

\* The two element loops of arAllFramesReady: dstPtr[i] = src1Ptr[...] for
\* i < s1samples, then (dstPtr + s1samples)[i] = src2Ptr[...] for
\* i < remaining; e is the element of dst, b the byte within it.
ReverseCopy(d, dst, src1, s1offset, s1samples, src2, remaining) ==
    [k \in 1 .. Len(dst.data) |->
        LET e == (k - 1) \div d.sizeofT
            b == (k - 1) % d.sizeofT
        IN  IF e < s1samples
            THEN ByteAt(src1.data,
                        (src1.length - e - 1 - s1offset) * d.sizeofT + b)
            ELSE IF e < s1samples + remaining
            THEN ByteAt(src2.data,
                        (src2.length - (e - s1samples) - 1) * d.sizeofT + b)
            ELSE dst.data[k]]

ReverseFill(d, n, req, dstLength, src1, s1offset, s1samples, src2) ==
    LET remaining == dstLength - s1samples
        dst == newAudioFrame(d.ai.bytesPerSample, dstLength)
    IN  FrameResult(n, req,
           {<<1, d.ai.numFrames - 1 - n>>}
              \cup (IF remaining > 0
                    THEN {<<1, Max(d.ai.numFrames - 2 - n, 0)>>} ELSE {}),
           {Copy(dstLength, 0, s1samples, src1.length, 0)}
              \cup (IF remaining > 0
                    THEN {Copy(dstLength, s1samples, remaining, src2.length,
                               src2.length - remaining)}
                    ELSE {}),
           AudioFrame(dstLength,
               ReverseCopy(d, dst, src1, s1offset, s1samples, src2,
                           remaining)),
           \/ s1offset < 0
           \/ remaining < 0
           \/ s1samples > VS_AUDIO_FRAME_SAMPLES
           \/ (remaining > 0 /\ src2 = NullFrame)
           \/ (remaining > 0 /\ remaining > src2.length))

ReverseOffsets_NoWrap(d, n, req, src1, src2) ==
    LET l1  == src1.length
        s1offset == l1 - (d.ai.numSamples % VS_AUDIO_FRAME_SAMPLES)
    IN  ReverseFill(d, n, req, FrameLength(d.ai.numSamples, n), src1,
                    s1offset, l1 - s1offset, src2)

ReverseOffsets(d, n, req, src1, src2) ==
    LET l1  == src1.length
        off == l1 - (d.ai.numSamples % VS_AUDIO_FRAME_SAMPLES)
        s1offset == IF off = VS_AUDIO_FRAME_SAMPLES THEN 0 ELSE off
    IN  ReverseFill(d, n, req, FrameLength(d.ai.numSamples, n), src1,
                    s1offset, l1 - s1offset, src2)

\* audioReverseGetFrame<T>: arInitial, then arAllFramesReady.
audioReverseGetFrame(d, n) ==
    LET n1  == d.ai.numFrames - 1 - n
        n2  == Max(d.ai.numFrames - 2 - n, 0)
        req == ReverseRequests(d, n)
        src1 == getFrameFilter(n1, d.ai, 1, req)
    IN  IF src1 = NullFrame
        THEN FrameResult(n, req, {<<1, n1>>}, {}, NullFrame, TRUE)
        ELSE ReverseOffsets(d, n, req, src1, getFrameFilter(n2, d.ai, 1, req))

(***************************************************************************)
(* AudioTrim                                                               *)
(***************************************************************************)
\* The optional arguments as audioTrimCreate reads them: a flag and the
\* value, which is 0 when the argument is absent.
TrimArgs(firstset, first, lastset, last, lengthset, length) ==
    [firstset |-> firstset, first |-> first, lastset |-> lastset,
     last |-> last, lengthset |-> lengthset, length |-> length]

CreateError(msg) == [filter |-> "error", msg |-> msg]

\* The tail of audioTrimCreate: trimlen is known.
TrimFilter(ai, a, trimlen) ==
    IF (~a.firstset /\ ~a.lastset /\ ~a.lengthset)
       \/ (trimlen # 0 /\ trimlen = ai.numSamples)
    THEN [filter |-> "AudioTrim", passthrough |-> TRUE, ai |-> ai,
          first |-> a.first, src |-> <<ai>>, args |-> a]
    ELSE [filter |-> "AudioTrim", passthrough |-> FALSE,
          ai |-> [ai EXCEPT !.numSamples = trimlen],
          first |-> a.first, src |-> <<ai>>, args |-> a]

audioTrimCreate(ai, a) ==
    IF a.lastset /\ a.lengthset
    THEN CreateError("AudioTrim: both last sample and length specified")
    ELSE IF a.lastset /\ a.last < a.first
    THEN CreateError("AudioTrim: invalid last sample specified")
    ELSE IF a.lengthset /\ a.length < 1
    THEN CreateError("AudioTrim: invalid length specified")
    ELSE IF a.first < 0
    THEN CreateError("Trim: invalid first frame specified")
    ELSE IF \/ (a.lastset /\ a.last >= ai.numSamples)
            \/ (a.lengthset /\ a.first + a.length > ai.numSamples)
            \/ ai.numSamples <= a.first
    THEN CreateError("AudioTrim: last sample beyond clip end")
    ELSE TrimFilter(ai, a,
            IF a.lastset THEN a.last - a.first + 1
            ELSE IF a.lengthset THEN a.length
            ELSE ai.numSamples - a.first)

\* The pass-through branch of audioTrimGetframe.
TrimPassThrough(d, n, startFrame, length) ==
    LET req == {Requested(startFrame, d.src[1], 1)}
        src == getFrameFilter(startFrame, d.src[1], 1, req)
        bps == d.ai.bytesPerSample
    IN  IF src = NullFrame
        THEN FrameResult(n, req, {<<1, startFrame>>}, {}, NullFrame, TRUE)
        ELSE IF length = src.length
        THEN FrameResult(n, req, {<<1, startFrame>>}, {}, src, FALSE)
        ELSE FrameResult(n, req, {<<1, startFrame>>},
                {Copy(length, 0, length, src.length, 0)},
                AudioFrame(length,
                    Memcpy(newAudioFrame(bps, length).data, 0, src.data, 0,
                           length * bps)),
                ~MemcpyInBounds(newAudioFrame(bps, length).data, 0,
                                src.data, 0, length * bps))

\* The second copy of the other branch: the samples src2 contributes.
TrimCopy2(d, n, req, lookups, length, numSrc1Samples, src1, dst1, src2) ==
    LET bps == d.ai.bytesPerSample
    IN  IF length > numSrc1Samples
        THEN IF src2 = NullFrame
             THEN FrameResult(n, req, lookups, {}, NullFrame, TRUE)
             ELSE FrameResult(n, req, lookups,
                    {Copy(length, 0, numSrc1Samples, src1.length,
                          VS_AUDIO_FRAME_SAMPLES - numSrc1Samples),
                     Copy(length, numSrc1Samples, length - numSrc1Samples,
                          src2.length, 0)},
                    AudioFrame(length,
                        Memcpy(dst1, numSrc1Samples * bps, src2.data, 0,
                               (length - numSrc1Samples) * bps)),
                    ~MemcpyInBounds(dst1, numSrc1Samples * bps, src2.data, 0,
                                    (length - numSrc1Samples) * bps))
        ELSE FrameResult(n, req, lookups,
                {Copy(length, 0, numSrc1Samples, src1.length,
                      VS_AUDIO_FRAME_SAMPLES - numSrc1Samples)},
                AudioFrame(length, dst1), FALSE)

\* The branch that copies from one or two source frames.
TrimCopy(d, n, startFrame, length, numSrc1Samples) ==
    LET bps  == d.ai.bytesPerSample
        req  == {Requested(startFrame, d.src[1], 1)}
                \cup (IF numSrc1Samples < length
                      THEN {Requested(startFrame + 1, d.src[1], 1)} ELSE {})
        src1 == getFrameFilter(startFrame, d.src[1], 1, req)
        off  == (VS_AUDIO_FRAME_SAMPLES - numSrc1Samples) * bps
    IN  IF src1 = NullFrame
        THEN FrameResult(n, req, {<<1, startFrame>>}, {}, NullFrame, TRUE)
        ELSE TrimCopy2(d, n, req,
                 {<<1, startFrame>>}
                    \cup (IF length > numSrc1Samples
                          THEN {<<1, startFrame + 1>>} ELSE {}),
                 length, numSrc1Samples, src1,
                 Memcpy(newAudioFrame(bps, length).data, 0,
                        src1.data, off, numSrc1Samples * bps),
                 getFrameFilter(startFrame + 1, d.src[1], 1, req))

audioTrimGetframe_NoFirst(d, n) ==
    LET startSample == n * VS_AUDIO_FRAME_SAMPLES
        length == Min(d.ai.numSamples - n * VS_AUDIO_FRAME_SAMPLES,
                      VS_AUDIO_FRAME_SAMPLES)
    IN  IF n # d.ai.numFrames - 1
        THEN TrimPassThrough(d, n, n, length)
        ELSE TrimCopy(d, n, n, length, VS_AUDIO_FRAME_SAMPLES)

\* audioTrimGetframe: arInitial, then arAllFramesReady.  d.ai.numFrames is
\* the frame count copied from the source clip's info.
audioTrimGetframe(d, n) ==
    LET startSample == n * VS_AUDIO_FRAME_SAMPLES + d.first
        startFrame  == startSample \div VS_AUDIO_FRAME_SAMPLES
        length == Min(d.ai.numSamples - n * VS_AUDIO_FRAME_SAMPLES,
                      VS_AUDIO_FRAME_SAMPLES)
    IN  IF startSample % VS_AUDIO_FRAME_SAMPLES = 0
           /\ n # d.ai.numFrames - 1
        THEN TrimPassThrough(d, n, startFrame, length)
        ELSE TrimCopy(d, n, startFrame, length,
                 VS_AUDIO_FRAME_SAMPLES
                    - (startSample % VS_AUDIO_FRAME_SAMPLES))

(***************************************************************************)
(* AudioSplice                                                             *)
(***************************************************************************)
MaxClips == 4

RECURSIVE SumSamples(_, _)
SumSamples(clips, i) ==
    IF i > Len(clips) THEN 0
    ELSE clips[i].numSamples + SumSamples(clips, i + 1)

\* isSameAudioInfo of every clip with the first.
SameFormat(clips) ==
    \A i \in 1 .. Len(clips) :
       clips[i].bytesPerSample = clips[1].bytesPerSample

\* audioSpliceCreate.  With a single clip the clip itself is appended to
\* the result and the filter is created all the same: there is no return.
audioSpliceCreate(clips) ==
    IF ~SameFormat(clips)
    THEN CreateError("AudioSplice: format mismatch")
    ELSE [filter |-> "AudioSplice", passthrough |-> FALSE,
          ai |-> [clips[1] EXCEPT !.numSamples = SumSamples(clips, 1)],
          src |-> clips,
          numSamples |-> [i \in 1 .. Len(clips) |-> clips[i].numSamples],
          cumSamples |-> [i \in 1 .. Len(clips) |->
                             SumSamples(SubSeq(clips, 1, i), 1)],
          numFrames  |-> [i \in 1 .. Len(clips) |-> clips[i].numFrames],
          outClips |-> IF Len(clips) = 1 THEN <<"source", "filter">>
                       ELSE <<"filter">>]

\* The clip the for loop stops at: the first whose cumSamples exceeds
\* sampleStart (1-based; Len + 1 when there is none).
RECURSIVE FirstClip(_, _, _)
FirstClip(d, sampleStart, i) ==
    IF i > Len(d.cumSamples) \/ d.cumSamples[i] > sampleStart THEN i
    ELSE FirstClip(d, sampleStart, i + 1)

\* The do-while of arInitial; an index past the clips reads outside the
\* vectors.
RECURSIVE SpliceRequestLoop(_, _, _, _, _, _)
SpliceRequestLoop(d, i, reqFrame, reqStartOffset, remainingSamples, req) ==
    IF i > Len(d.src)
    THEN [requested |-> req, ub |-> TRUE]
    ELSE
    LET reqStart   == reqFrame * VS_AUDIO_FRAME_SAMPLES
        reqSamples == Min(VS_AUDIO_FRAME_SAMPLES - reqStartOffset,
                          d.numSamples[i] - reqStart)
        req2  == req \cup {Requested(reqFrame, d.src[i], i)}
        wraps == reqFrame + 1 > d.numFrames[i] - 1
    IN  IF remainingSamples - reqSamples > 0
        THEN SpliceRequestLoop(d, IF wraps THEN i + 1 ELSE i,
                               IF wraps THEN 0 ELSE reqFrame + 1, 0,
                               remainingSamples - reqSamples, req2)
        ELSE [requested |-> req2, ub |-> FALSE]

\* One turn of the do-while of arAllFramesReady, src being there.
SpliceCopyStep(d, s, src) ==
    LET bps    == d.ai.bytesPerSample
        length == src.length - s.reqStartOffset
        count  == Min(length, s.remainingSamples)
    IN  [s EXCEPT
           !.lookups = @ \cup {<<s.i, s.reqFrame>>},
           !.copies  = @ \cup {Copy(s.dstLength, s.dstOffset \div bps, count,
                                    src.length, s.reqStartOffset)},
           !.ub   = @ \/ ~MemcpyInBounds(s.dst, s.dstOffset, src.data,
                                         s.reqStartOffset * bps, count * bps),
           !.dst  = Memcpy(s.dst, s.dstOffset, src.data,
                           s.reqStartOffset * bps, count * bps),
           !.reqStartOffset = 0,
           !.dstOffset = @ + length * bps,
           !.remainingSamples = @ - length,
           !.reqFrame = IF s.reqFrame + 1 > d.numFrames[s.i] - 1
                        THEN 0 ELSE s.reqFrame + 1,
           !.i = IF s.reqFrame + 1 > d.numFrames[s.i] - 1 THEN @ + 1 ELSE @]

RECURSIVE SpliceCopyLoop(_, _, _)
SpliceCopyLoop(d, s, req) ==
    IF s.i > Len(d.src)
    THEN [s EXCEPT !.ub = TRUE, !.null = TRUE]
    ELSE IF getFrameFilter(s.reqFrame, d.src[s.i], s.i, req) = NullFrame
    THEN [s EXCEPT !.ub = TRUE, !.null = TRUE,
                   !.lookups = @ \cup {<<s.i, s.reqFrame>>}]
    ELSE LET t == SpliceCopyStep(d, s,
                     getFrameFilter(s.reqFrame, d.src[s.i], s.i, req))
         IN  IF t.remainingSamples > 0
             THEN SpliceCopyLoop(d, t, req)
             ELSE t

SpliceResult(n, r, s) ==
    FrameResult(n, r.requested, s.lookups, s.copies,
                IF s.null THEN NullFrame ELSE AudioFrame(s.dstLength, s.dst),
                r.ub \/ s.ub)

SpliceFrom(d, n, i, currentStartSample, remainingSamples) ==
    LET reqStartOffset == currentStartSample % VS_AUDIO_FRAME_SAMPLES
        reqFrame       == currentStartSample \div VS_AUDIO_FRAME_SAMPLES
        r == SpliceRequestLoop(d, i, reqFrame, reqStartOffset,
                               remainingSamples, {})
    IN  SpliceResult(n, r,
           SpliceCopyLoop(d,
              [i |-> i, reqFrame |-> reqFrame,
               reqStartOffset |-> reqStartOffset,
               remainingSamples |-> remainingSamples,
               dstLength |-> remainingSamples,
               dst |-> newAudioFrame(d.ai.bytesPerSample,
                                     remainingSamples).data,
               dstOffset |-> 0, lookups |-> {}, copies |-> {},
               ub |-> FALSE, null |-> FALSE],
              r.requested))

\* audioSpliceGetframe: arInitial, then arAllFramesReady.
audioSpliceGetframe(d, n) ==
    LET sampleStart == n * VS_AUDIO_FRAME_SAMPLES
        i == FirstClip(d, sampleStart, 1)
    IN  IF i > Len(d.src)
        THEN FrameResult(n, {}, {}, {}, NullFrame, FALSE)
        ELSE SpliceFrom(d, n, i,
                sampleStart - (IF i > 1 THEN d.cumSamples[i - 1] ELSE 0),
                Min(VS_AUDIO_FRAME_SAMPLES, d.ai.numSamples - sampleStart))

(***************************************************************************)
(* AudioLoop                                                               *)
(***************************************************************************)
\* The largest times of the loops of the model.  times = 0 (a clip of
\* INT_MAX frames) is left out: its sample count is beyond the integers
\* here.
MaxTimes == 3

\* audioLoopCreate.  times = 1 returns the clip itself.
audioLoopCreate(ai, times) ==
    IF times < 0
    THEN CreateError("AudioLoop: cannot repeat clip a negative number of times")
    ELSE [filter |-> "AudioLoop", passthrough |-> times = 1,
          ai |-> IF times = 1 THEN ai
                 ELSE [ai EXCEPT !.numSamples = ai.numSamples * times],
          src |-> <<ai>>,
          srcSamples |-> ai.numSamples,
          srcFrames |-> ai.numFrames]

\* The do-while of arInitial.
RECURSIVE LoopRequestLoop(_, _, _, _, _, _, _)
LoopRequestLoop(d, reqStartFrame, reqFrame, reqStart, reqStartOffset, remainingSamples, req) ==
    LET reqSamples == Min(VS_AUDIO_FRAME_SAMPLES - reqStartOffset,
                          d.srcSamples - reqStart)
        req2  == req \cup {Requested(reqFrame, d.src[1], 1)}
        wraps == reqFrame + 1 > d.srcFrames - 1
        next  == IF wraps THEN 0 ELSE reqFrame + 1
    IN  IF remainingSamples - reqSamples > 0 /\ next # reqStartFrame
        THEN LoopRequestLoop(d, reqStartFrame, next,
                             IF wraps THEN 0 ELSE reqStart + reqSamples, 0,
                             remainingSamples - reqSamples, req2)
        ELSE req2

\* One turn of the do-while of arAllFramesReady, src being there.
LoopCopyStep(d, s, src) ==
    LET bps    == d.ai.bytesPerSample
        length == src.length - s.reqStartOffset
        count  == Min(length, s.remainingSamples)
    IN  [s EXCEPT
           !.lookups = @ \cup {<<1, s.reqFrame>>},
           !.copies  = @ \cup {Copy(s.dstLength, s.dstOffset \div bps, count,
                                    src.length, s.reqStartOffset)},
           !.ub   = @ \/ ~MemcpyInBounds(s.dst, s.dstOffset, src.data,
                                         s.reqStartOffset * bps, count * bps),
           !.dst  = Memcpy(s.dst, s.dstOffset, src.data,
                           s.reqStartOffset * bps, count * bps),
           !.reqStartOffset = 0,
           !.dstOffset = @ + length * bps,
           !.remainingSamples = @ - length,
           !.reqFrame = IF s.reqFrame + 1 > d.srcFrames - 1
                        THEN 0 ELSE s.reqFrame + 1]

\* The do-while of arAllFramesReady; getFrameLength of a null frame is a
\* null dereference.
RECURSIVE LoopCopyLoop(_, _, _)
LoopCopyLoop(d, s, req) ==
    IF getFrameFilter(s.reqFrame, d.src[1], 1, req) = NullFrame
    THEN [s EXCEPT !.ub = TRUE, !.null = TRUE,
                   !.lookups = @ \cup {<<1, s.reqFrame>>}]
    ELSE LET t == LoopCopyStep(d, s,
                     getFrameFilter(s.reqFrame, d.src[1], 1, req))
         IN  IF t.remainingSamples > 0
             THEN LoopCopyLoop(d, t, req)
             ELSE t

LoopResult(n, req, s) ==
    FrameResult(n, req, s.lookups, s.copies,
                IF s.null THEN NullFrame ELSE AudioFrame(s.dstLength, s.dst),
                s.ub)

LoopFrom(d, n, reqStart, remainingSamples) ==
    LET reqStartFrame  == reqStart \div VS_AUDIO_FRAME_SAMPLES
        reqStartOffset == reqStart % VS_AUDIO_FRAME_SAMPLES
        req == LoopRequestLoop(d, reqStartFrame, reqStartFrame, reqStart,
                               reqStartOffset, remainingSamples, {})
    IN  LoopResult(n, req,
           LoopCopyLoop(d,
              [reqFrame |-> reqStartFrame,
               reqStartOffset |-> reqStartOffset,
               remainingSamples |-> remainingSamples,
               dstLength |-> remainingSamples,
               dst |-> newAudioFrame(d.ai.bytesPerSample,
                                     remainingSamples).data,
               dstOffset |-> 0, lookups |-> {}, copies |-> {},
               ub |-> FALSE, null |-> FALSE],
              req))

\* audioLoopGetFrame: arInitial, then arAllFramesReady.
audioLoopGetFrame(d, n) ==
    LoopFrom(d, n, (n * VS_AUDIO_FRAME_SAMPLES) % d.srcSamples,
             Min(VS_AUDIO_FRAME_SAMPLES,
                 d.ai.numSamples - n * VS_AUDIO_FRAME_SAMPLES))

(***************************************************************************)
(* The calls on the audio filters                                          *)
(***************************************************************************)
SourceLengths == 1 .. MaxSamples
SpliceLengths == {2, 3, 5, 6}
TrimValues    == {0, 1, 3, 4, 9}

AudioReverseCreate ==
    /\ aud = NoFilter
    /\ \E numSamples \in SourceLengths, bps \in BytesPerSample :
          aud' = audioReverseCreate(AudioInfo(1, numSamples, bps))
    /\ got' = NoFrame
    /\ UNCHANGED <<mapVars, aviVars, reqVars, depVars>>

AudioTrimCreate ==
    /\ aud = NoFilter
    /\ \E numSamples \in SourceLengths, bps \in BytesPerSample,
          firstset \in BOOLEAN, lastset \in BOOLEAN, lengthset \in BOOLEAN,
          first \in TrimValues, last \in TrimValues, length \in TrimValues :
          /\ firstset \/ first = 0
          /\ lastset \/ last = 0
          /\ lengthset \/ length = 0
          /\ aud' = audioTrimCreate(AudioInfo(1, numSamples, bps),
                       TrimArgs(firstset, first, lastset, last,
                                lengthset, length))
    /\ got' = NoFrame
    /\ UNCHANGED <<mapVars, aviVars, reqVars, depVars>>

RECURSIVE ClipLists(_)
ClipLists(k) ==
    IF k = 0 THEN {<< >>}
    ELSE LET shorter == ClipLists(k - 1)
         IN  shorter \cup
             { Append(c, AudioInfo(Len(c) + 1, numSamples, 2)) :
                  c \in {x \in shorter : Len(x) = k - 1},
                  numSamples \in SpliceLengths }

AudioSpliceCreate ==
    /\ aud = NoFilter
    /\ \/ \E clips \in ClipLists(MaxClips) \ {<< >>} :
             aud' = audioSpliceCreate(clips)
       \/ aud' = audioSpliceCreate(<<AudioInfo(1, 5, 2), AudioInfo(2, 5, 4)>>)
    /\ got' = NoFrame
    /\ UNCHANGED <<mapVars, aviVars, reqVars, depVars>>

LoopTimes == {-1} \cup (1 .. MaxTimes)

AudioLoopCreate ==
    /\ aud = NoFilter
    /\ \E numSamples \in SourceLengths, bps \in BytesPerSample,
          times \in LoopTimes :
          aud' = audioLoopCreate(AudioInfo(1, numSamples, bps), times)
    /\ got' = NoFrame
    /\ UNCHANGED <<mapVars, aviVars, reqVars, depVars>>

\* The frame count of the filter's own node: from its numSamples.
OutFrames(d) == NumFrames(d.ai.numSamples)

\* One frame of the created clip: both activations of the filter.
GetAudioFrame ==
    /\ aud.filter \in {"AudioReverse", "AudioTrim", "AudioSplice",
                       "AudioLoop"}
    /\ got = NoFrame
    /\ \E n \in 0 .. OutFrames(aud) - 1 :
          got' = IF aud.filter = "AudioReverse"
                 THEN audioReverseGetFrame(aud, n)
                 ELSE IF aud.filter = "AudioSplice"
                 THEN audioSpliceGetframe(aud, n)
                 ELSE IF aud.passthrough
                 THEN FrameResult(n, {}, {}, {}, SourceFrame(aud.ai, n), FALSE)
                 ELSE IF aud.filter = "AudioLoop"
                 THEN audioLoopGetFrame(aud, n)
                 ELSE audioTrimGetframe(aud, n)
    /\ UNCHANGED aud
    /\ UNCHANGED <<mapVars, aviVars, reqVars, depVars>>

\* The filter is freed.
AudioFree ==
    /\ aud # NoFilter
    /\ aud' = NoFilter
    /\ got' = NoFrame
    /\ UNCHANGED <<mapVars, aviVars, reqVars, depVars>>

NextAudio ==
    \/ AudioReverseCreate
    \/ AudioTrimCreate
    \/ AudioSpliceCreate
    \/ AudioLoopCreate
    \/ GetAudioFrame
    \/ AudioFree

SpecAudio == Init /\ [][NextAudio]_vars

(***************************************************************************)
(* Part 5: the dependencies of a frame context (src/core/vsapi.cpp)        *)
(*                                                                         *)
(* A filter's activation holds a frame context.  requestFrameFilter adds a *)
(* request to it; the scheduler, which is not part of these sources,       *)
(* completes requests and puts each frame into availableFrames under the   *)
(* node and the frame index of the request's context; getFrameFilter looks *)
(* frames up there and releaseFrameEarly erases one.  A node is named by   *)
(* its frame count.                                                        *)
(***************************************************************************)
\* The largest number of requests of one frame context.
MaxDeps == 2

\* NodeOutputKey(node->clip, n, node->index)
NodeOutputKey(node, n) == <<node, n>>

\* The frame numbers a filter asks an input for.
DepN == 0 .. MaxNumFrames + 1

\* requestFrameFilter(n, node, frameCtx): the request and the key of the
\* context it creates.
DepRequest ==
    /\ Cardinality(deps.requested) < MaxDeps
    /\ \E node \in NodeNumFrames, n \in DepN :
          deps' = [deps EXCEPT
                     !.requested = @ \cup
                        {[node |-> node, n |-> n,
                          key |-> NodeOutputKey(node,
                                     requestFrameFilter(n, node).n)]},
                     !.last = [op |-> "requestFrameFilter", node |-> node,
                               n |-> n]]
    /\ UNCHANGED <<mapVars, aviVars, reqVars, audVars>>

\* The scheduler completes a request: the frame is available under the key
\* of the request's context.
DepComplete ==
    /\ \E r \in deps.requested :
          /\ r.key \notin deps.availableFrames
          /\ deps' = [deps EXCEPT
                        !.availableFrames = @ \cup {r.key},
                        !.last = [op |-> "complete", node |-> r.node,
                                  n |-> r.n]]
    /\ UNCHANGED <<mapVars, aviVars, reqVars, audVars>>

\* getFrameFilter(n, node, frameCtx): found tells whether a frame came back.
DepGetFrameFilter ==
    /\ deps.availableFrames # {}
    /\ deps.last.op # "getFrameFilter"
    /\ \E node \in NodeNumFrames, n \in DepN :
          deps' = [deps EXCEPT
                     !.last = [op |-> "getFrameFilter", node |-> node,
                               n |-> n,
                               found |-> NodeOutputKey(node,
                                            LookupIndex(n, node))
                                         \in deps.availableFrames]]
    /\ UNCHANGED <<mapVars, aviVars, reqVars, audVars>>

\* availableFrames.erase(NodeOutputKey(node->clip, n, node->index))
releaseFrameEarly(available, node, n) ==
    available \ {NodeOutputKey(node, n)}

\* releaseFrameEarly(node, n, frameCtx); before is the dict as it was.
DepReleaseFrameEarly ==
    /\ deps.availableFrames # {}
    /\ \E node \in NodeNumFrames, n \in DepN :
          deps' = [deps EXCEPT
                     !.availableFrames = releaseFrameEarly(@, node, n),
                     !.last = [op |-> "releaseFrameEarly", node |-> node,
                               n |-> n, before |-> deps.availableFrames]]
    /\ UNCHANGED <<mapVars, aviVars, reqVars, audVars>>

\* The activation is over: the frame context is destroyed.
DepDone ==
    /\ deps # NoDeps
    /\ deps' = NoDeps
    /\ UNCHANGED <<mapVars, aviVars, reqVars, audVars>>

NextDeps ==
    \/ DepRequest
    \/ DepComplete
    \/ DepGetFrameFilter
    \/ DepReleaseFrameEarly
    \/ DepDone

SpecDeps == Init /\ [][NextDeps]_vars

(***************************************************************************)
(* Part 1, properties                                                      *)
(***************************************************************************)

TypedSetOps == {"propSetInt", "propSetFloat", "propSetData", "propSetNode",
                "propSetFrame", "propSetFunc"}
BulkSetOps  == {"propSetIntArray", "propSetFloatArray"}
GetOps      == {"propGetInt", "propGetFloat", "propGetData", "propGetNode",
                "propGetFrame", "propGetFunc"}

\* the array type a value is stored under
TypeOfVal(v) ==
    CASE v[1] = "int"   -> "ptInt"
      [] v[1] = "float" -> "ptFloat"
      [] v[1] = "data"  -> "ptData"
      [] v[1] = "func"  -> "ptFunction"
      [] v[1] = "node"  -> IF v[2] = "mtVideo" THEN "ptVideoNode" ELSE "ptAudioNode"
      [] v[1] = "frame" -> IF v[2] = "mtVideo" THEN "ptVideoFrame" ELSE "ptAudioFrame"

\* the array types a getter is the getter of
TypesOfGetter(op) ==
    CASE op = "propGetInt"   -> {"ptInt"}
      [] op = "propGetFloat" -> {"ptFloat"}
      [] op = "propGetData"  -> {"ptData"}
      [] op = "propGetFunc"  -> {"ptFunction"}
      [] op = "propGetNode"  -> {"ptVideoNode", "ptAudioNode"}
      [] op = "propGetFrame" -> {"ptVideoFrame", "ptAudioFrame"}

\* the getter of a value's type, applied
GetAs(v, m, key, index, errp) ==
    CASE v[1] = "int"   -> propGetInt(m, key, index, errp)
      [] v[1] = "float" -> propGetFloat(m, key, index, errp)
      [] v[1] = "data"  -> propGetData(m, key, index, errp)
      [] v[1] = "func"  -> propGetFunc(m, key, index, errp)
      [] v[1] = "node"  -> propGetNode(m, key, index, errp)
      [] v[1] = "frame" -> propGetFrame(m, key, index, errp)

\* what a getter returns when it returns no element
FailVals == {NoVal, <<"int", 0>>, <<"float", 0>>}

\* the key pattern [A-Za-z_][A-Za-z0-9_]*
Letters == (65 .. 90) \cup (97 .. 122)
Digits  == 48 .. 57
MatchesKeyPattern(s) ==
    /\ Len(s) >= 1
    /\ s[1] \in Letters \cup {95}
    /\ \A i \in 2 .. Len(s) : s[i] \in Letters \cup Digits \cup {95}

\* C4: a successful replace-mode set of v under k, followed by the getter of
\* v's type at index 0, returns v with error code 0.
C4_ReplaceRoundTrip ==
    (ret.op \in TypedSetOps /\ ret.mode = "paReplace" /\ ret.rc = 0 /\ ~hasError(map))
        => GetAs(ret.val, map, ret.key, 0, TRUE)
               = {Outcome("peSuccess", ret.val, FALSE, FALSE)}

\* C5: after n successful append-mode sets of v1..vn the key holds the elements
\* it held before followed by v1..vn, the count has grown by n, and the getter
\* returns the corresponding value at each index.
C5_AppendSequence ==
    (ret.op \in TypedSetOps /\ ret.mode = "paAppend" /\ ret.rc = 0 /\ ~hasError(map))
        => LET all == ret.base \o ret.vals IN
           /\ find(map, ret.key).elems = all
           /\ propNumElements(map, ret.key) = Len(ret.base) + Len(ret.vals)
           /\ \A i \in 0 .. Len(all) - 1 :
                GetAs(ret.val, map, ret.key, i, TRUE)
                    = {Outcome("peSuccess", all[i + 1], FALSE, FALSE)}

\* C6: a getter of another type than the stored, non-empty array's reports
\* peType at index 0 and returns no element (a getter never changes the map).
C6_WrongTypeRead ==
    (/\ ret.op \in GetOps /\ ret.index = 0 /\ ret.errp /\ ~hasError(map)
     /\ size(find(map, ret.key)) > 0
     /\ find(map, ret.key).type \notin TypesOfGetter(ret.op))
        => ret.err = "peType" /\ ret.out \in FailVals /\ ~ret.ub

\* C7: a getter of the stored type reading an array of n elements at an index
\* i >= n reports peIndex and touches no element.
C7_IndexCheck ==
    (/\ ret.op \in GetOps /\ ret.errp /\ ~hasError(map)
     /\ find(map, ret.key) # NullArr
     /\ find(map, ret.key).type \in TypesOfGetter(ret.op)
     /\ ret.index >= size(find(map, ret.key)))
        => ret.err = "peIndex" /\ ret.out \in FailVals /\ ~ret.ub

\* C8 as stated: on a map with the error set every typed read, with or without
\* the error pointer, ends without a fatal abort and with the map-has-error code.
C8_ErrorMapReadNeverTraps ==
    (ret.op \in GetOps /\ hasError(map))
        => proc # "fatal" /\ (ret.errp => ret.err = "peError")

\* C8 as amended: on a map with the error set, a typed read given the error
\* pointer reports peError, returns no element and does not abort, whatever the
\* key holds; a typed read given no error pointer calls vsFatal.
C8_ErrorMapRead ==
    (ret.op \in GetOps /\ hasError(map))
        => /\ ret.out \in FailVals /\ ~ret.ub
           /\ ret.errp => (ret.err = "peError" /\ proc = "running")
           /\ ~ret.errp => proc = "fatal"

C8_Witness ==
    /\ ret.op = "propGetInt" /\ hasError(map) /\ ret.errp
    /\ find(map, ret.key) # NullArr /\ find(map, ret.key).type = "ptInt"
    /\ ret.err = "peError"

\* C9: every setter called with a key outside the pattern fails and leaves the
\* map as it was; a key inside the pattern is never the reason a setter fails.
C9_KeyValidation ==
    /\ (ret.op \in TypedSetOps \cup BulkSetOps \cup {"propSetEmpty"}
        /\ ~MatchesKeyPattern(ret.key))
           => ret.rc # 0 /\ ~ret.changed /\ ret.key \notin DOMAIN map.data
    /\ (ret.op \in TypedSetOps /\ MatchesKeyPattern(ret.key) /\ ret.mode = "paReplace")
           => ret.rc = 0
    /\ (ret.op \in TypedSetOps /\ MatchesKeyPattern(ret.key) /\ ret.mode = "paAppend"
        /\ ret.rc # 0)
           => find(map, ret.key) # NullArr
              /\ find(map, ret.key).type # TypeOfVal(ret.val)
    /\ (ret.op \in BulkSetOps /\ MatchesKeyPattern(ret.key)) => ret.rc = 0
    /\ (ret.op = "propSetEmpty" /\ MatchesKeyPattern(ret.key) /\ ret.rc # 0)
           => ret.key \in DOMAIN map.data \/ ret.mode \notin PropTypes

C9_Witness ==
    /\ ret.op = "propSetData" /\ ret.key = <<97, 123>> /\ ret.mode = "paAppend"
    /\ ret.rc = 1 /\ DOMAIN map.data # {}

\* C10: an append-mode set on a key whose array has another element type
\* fails and changes nothing.
C10_AppendTypeMismatch ==
    [][ (/\ ret'.op \in TypedSetOps /\ ret'.mode = "paAppend"
         /\ find(map, ret'.key) # NullArr
         /\ find(map, ret'.key).type # TypeOfVal(ret'.val))
            => (ret'.rc = 1 /\ map' = map /\ proc' = proc) ]_vars

C10_Witness ==
    /\ ret.op = "propSetFloat" /\ ret.mode = "paAppend" /\ ret.rc = 1
    /\ find(map, ret.key) # NullArr
    /\ find(map, ret.key).type = "ptInt" /\ size(find(map, ret.key)) = 1
    /\ Cardinality(DOMAIN map.data) = 2

(***************************************************************************)
(* Part 2, properties                                                      *)
(***************************************************************************)

\* The 64 bit qwBaseOffset of an index chunk.
qwBaseOffset(indx) ==
    indx.qwBaseOffsetHigh * 65536 * 65536 + indx.qwBaseOffsetLow

\* C1: for every read (fileOffset, size) with size > 0 and fileOffset + size
\* <= fileSize, ReadMedia fills the buffer with exactly the bytes of
\* [fileOffset, fileOffset + size) of the fully materialised file image,
\* whichever region the range starts in and however many regions, frames or
\* segments it spans.
C1_ReadMatchesImage ==
    rd.state = "done" =>
        Normalise(rd.buffer)
            = Normalise(Slice(Image(avi), rd.fileOffset, rd.requestedSize))

\* C2: after Init, for every segment and every frame k of its video range,
\* the ix00 entry's dwOffset plus the segment's qwBaseOffset is the file
\* offset at which ReadMedia serves the first payload byte of the frame's
\* 00db/00dc chunk, 8 bytes after the start of the chunk's RiffTag, and
\* dwSize is the video payload size.
C2_VidIndxLocatesPayload ==
    /\ (avi.state = "ready" /\ rd.state = "none") =>
         \A i \in 1 .. Len(avi.segs) :
            LET seg == avi.segs[i] IN
            /\ Len(seg.vidIndx.ents) = seg.vidFrameCount
            /\ \A k \in 1 .. seg.vidFrameCount :
                 LET e   == seg.vidIndx.ents[k]
                     pos == qwBaseOffset(seg.vidIndx) + e.dwOffset
                 IN /\ e.dwSize = avi.frameVidDataSize
                    /\ ReadMedia(avi, pos, 1).buffer
                         = <<Run("vid", 0, seg.startFrame + k - 1, 0, 1)>>
                    /\ ReadMedia(avi, pos - RiffTagSize, RiffTagSize).buffer
                         = <<Run("tag", avi.frameVidFcc, avi.frameVidDataSize,
                                 0, RiffTagSize)>>
    /\ (avi.state = "ready" /\ rd.state = "done") =>
         \A i \in 1 .. Len(avi.segs) :
            \A k \in 1 .. avi.segs[i].vidFrameCount :
               LET seg == avi.segs[i]
                   e   == seg.vidIndx.ents[k]
               IN rd.fileOffset = qwBaseOffset(seg.vidIndx) + e.dwOffset
                  => Head(rd.buffer)
                       = Run("vid", 0, seg.startFrame + k - 1, 0,
                             Min(rd.requestedSize, e.dwSize))

\* A read that starts at the offset the ix00 of the second segment records
\* for a frame, in a file with audio.
C2_Witness ==
    /\ avi.state = "ready"
    /\ rd.state = "done"
    /\ avi.fileSegCount >= 2
    /\ avi.fileSampleCount # 0
    /\ avi.segs[2].vidFrameCount >= 1
    /\ rd.fileOffset = qwBaseOffset(avi.segs[2].vidIndx)
                       + avi.segs[2].vidIndx.ents[1].dwOffset
    /\ Head(rd.buffer)[1] = "vid"

\* The bytes ReadMedia(0, 12) returned.
First12 == SubSeq(HdrHead(avi.segs[1]), 1, 12)

IsRead0_12 ==
    /\ avi.state = "ready"
    /\ rd.state = "done"
    /\ rd.fileOffset = 0
    /\ rd.requestedSize = 12

\* C3 as stated: for every successfully initialised file (any number of
\* segments), ReadMedia(0, 12) returns 'RIFF', then the little-endian u32
\* fileSize - 8, then 'AVI '.
C3_RiffHeaderFileSize ==
    IsRead0_12 =>
        /\ rd.buffer = <<Run("hdr", 0, 0, 0, 12)>>
        /\ First12 = <<82, 73, 70, 70>> \o LE32(avi.fileSize - 8)
                     \o <<65, 86, 73, 32>>

\* C3 amended: ReadMedia(0, 12) returns 'RIFF', then the little-endian u32
\* of the size of segment 0 minus 8, then 'AVI '; that value is
\* fileSize - 8 exactly when the file has one segment.
C3_RiffHeaderSegSize ==
    IsRead0_12 =>
        /\ rd.buffer = <<Run("hdr", 0, 0, 0, 12)>>
        /\ First12 = <<82, 73, 70, 70>> \o LE32(avi.segs[1].segSize - 8)
                     \o <<65, 86, 73, 32>>
        /\ (avi.segs[1].segSize = avi.fileSize) <=> (avi.fileSegCount = 1)

\* ReadMedia(0, 12) on a file of two segments.
C3_Witness ==
    /\ IsRead0_12
    /\ avi.fileSegCount = 2
    /\ rd.buffer = <<Run("hdr", 0, 0, 0, 12)>>

(***************************************************************************)
(* Part 2, properties of the index chunks                                  *)
(***************************************************************************)
\* The bytes of a run of a RiffTag: the fcc, then cb, little-endian.
TagBytes(r) == SubSeq(LE32(r[2]) \o LE32(r[3]), r[4] + 1, r[4] + r[5])

\* The offsets that can be meant by the start of the movi list of segment
\* 0: its LIST tag, its 'movi' code, its first chunk.
MoviListStarts ==
    {Seg0DataLstOffset, Seg0DataLstOffset + RiffTagSize, Seg0HdrSize}

\* The file serves, at pos, the RiffTag of a chunk with this code and size.
TagServedAt(pos, fcc, cb) ==
    /\ pos >= 0
    /\ pos + RiffTagSize <= avi.fileSize
    /\ ReadMedia(avi, pos, RiffTagSize).buffer
          = <<Run("tag", fcc, cb, 0, RiffTagSize)>>

OldIndxEnts == avi.segs[1].oldIndx.ents

\* C18: every entry of the legacy idx1 index of segment 0 carries
\* AVIIF_KEYFRAME and a dwOffset that is relative to the start of the movi
\* list, not to the start of the file, and that leads to the RiffTag of the
\* audio or video chunk the entry describes; dwSize is that chunk's
\* unpadded payload size.
C18_OldIndxMoviRelative ==
    (avi.state = "ready" /\ rd.state = "none") =>
       /\ Len(OldIndxEnts)
             = avi.segs[1].vidFrameCount + avi.segs[1].audFrameCount
       /\ \A k \in 1 .. Len(OldIndxEnts) :
             LET e == OldIndxEnts[k]
             IN  /\ e.dwFlags = AVIIF_KEYFRAME
                 /\ e.dwChunkId \in {avfsAvi2AudFcc, avi.frameVidFcc}
                 /\ \E base \in MoviListStarts :
                       TagServedAt(base + e.dwOffset, e.dwChunkId, e.dwSize)

\* The chunk code the video format calls for.
VidChunkCode ==
    IF avi.vi.vidType = "DIB " THEN <<48, 48, 100, 98>>
    ELSE <<48, 48, 100, 99>>

\* The chunk code an idx1 entry calls for.
ChunkCodeOf(e) ==
    IF e.dwChunkId = avi.frameVidFcc THEN VidChunkCode
    ELSE <<48, 49, 119, 98>>

\* C19: for every idx1 entry whose dwChunkId is the video code, the 4
\* bytes ReadMedia returns at the file offset equal to the entry's dwOffset
\* are the video chunk code, 00db for uncompressed DIB and 00dc otherwise;
\* audio entries lead to 01wb in the same way.
C19_OldIndxLeadsToChunk ==
    /\ (avi.state = "ready" /\ rd.state = "none") =>
          \A k \in 1 .. Len(OldIndxEnts) :
             LET e == OldIndxEnts[k]
                 r == ReadMedia(avi, e.dwOffset, 4)
             IN  /\ e.dwChunkId \in {avfsAvi2AudFcc, avi.frameVidFcc}
                 /\ r.success /\ ~r.ub
                 /\ Len(r.buffer) = 1
                 /\ r.buffer[1][1] = "tag"
                 /\ TagBytes(r.buffer[1]) = ChunkCodeOf(e)
    /\ (avi.state = "ready" /\ rd.state = "done") =>
          \A k \in 1 .. Len(OldIndxEnts) :
             (rd.fileOffset = OldIndxEnts[k].dwOffset
                 /\ rd.requestedSize >= 4) =>
                /\ Head(rd.buffer)[1] = "tag"
                /\ SubSeq(TagBytes(SubRun(Head(rd.buffer), 0, 4)), 1, 4)
                      = ChunkCodeOf(OldIndxEnts[k])

\* A read of 12 bytes at the offset a video entry of idx1 reports, in a
\* file with audio whose video is not DIB.
C19_Witness ==
    /\ avi.state = "ready"
    /\ rd.state = "done"
    /\ avi.fileSampleCount # 0
    /\ avi.vi.vidType # "DIB "
    /\ rd.requestedSize = 12
    /\ \E k \in 1 .. Len(OldIndxEnts) :
          /\ OldIndxEnts[k].dwChunkId = avfsAvi2VidCompFcc
          /\ rd.fileOffset = OldIndxEnts[k].dwOffset
    /\ Head(rd.buffer)[1] = "tag"

\* The 64 bit offset of a super index entry.
qwOffset(e) == e.qwOffsetHigh * 65536 * 65536 + e.qwOffsetLow

\* The file offset at which the ix00 chunk of a segment lies.
VidIndxOffset(seg) ==
    seg.startOffset + seg.hdrSize + seg.dataSize + indxPrePadSize

\* C20: for every segment s, entry s of the video (audio) super index has
\* the file offset of the segment's ix00 (ix01) chunk as its 64 bit offset
\* and the byte size of that chunk as laid out in the file as its dwSize,
\* also when the segment's video and audio frame counts differ from its
\* total frame count.
C20_SuperIndx ==
    (avi.state = "ready" /\ rd.state = "none") =>
       /\ Len(avi.vidIndxEnts) = Len(avi.segs)
       /\ avi.fileSampleCount # 0 => Len(avi.audIndxEnts) = Len(avi.segs)
       /\ \A i \in 1 .. Len(avi.segs) :
             LET seg == avi.segs[i]
             IN  /\ qwOffset(avi.vidIndxEnts[i]) = VidIndxOffset(seg)
                 /\ avi.vidIndxEnts[i].dwSize = seg.vidIndxSize
                 /\ avi.fileSampleCount # 0 =>
                      /\ qwOffset(avi.audIndxEnts[i])
                            = VidIndxOffset(seg) + seg.vidIndxSize
                      /\ avi.audIndxEnts[i].dwSize = seg.audIndxSize


(***************************************************************************)
(* Part 3, properties                                                      *)
(***************************************************************************)
\* C11: every frame request enqueues a Context whose frame index lies in
\* [0, numFrames-1]: a request for n >= numFrames is clamped to numFrames-1
\* and a request for a negative n is an errored request, never a Context
\* for a negative index.
C11_RequestClamped ==
    \A i \in 1 .. Len(queue) :
       LET e == queue[i]
       IN  /\ e.req < 0 => e.ctx.error
           /\ ~e.ctx.error => e.ctx.n \in 0 .. e.numFrames - 1
           /\ (e.req >= e.numFrames /\ e.numFrames > 0)
                 => (~e.ctx.error /\ e.ctx.n = e.numFrames - 1)

\* C12: the synchronous getFrame does not return before the completion
\* callback of its request has run, it returns the frame that was passed
\* to the callback, and the callback never touches the waiter after
\* getFrame has returned.
C12_ReturnsAfterCallback ==
    /\ caller.pc = "returned" =>
          (cbk.state = "done" /\ caller.result = cbk.frame)
    /\ cbk.state # "use_after_return"

\* C13: every call of the synchronous getFrame returns, whether the
\* callback runs on another thread or inside the enqueue call on the
\* calling thread.
C13_GetFrameReturns ==
    (caller.pc = "locked") ~> (caller.pc = "returned")

\* C14: called on a pool worker, getFrame calls releaseThread exactly once
\* before the request is enqueued and the thread blocks, and reserveThread
\* exactly once after the wake-up and before it returns; called on another
\* thread it calls neither; the reserved-slot count after getFrame is the
\* count before it.
C14_ThreadSlot ==
    LET once == IF caller.isWorker THEN 1 ELSE 0
    IN  /\ caller.pc = "locked" =>
             (pool.releaseCalls = 0 /\ pool.reserveCalls = 0)
        /\ caller.pc \in {"released", "in_enqueue", "enqueued", "waiting",
                          "woken", "relocked"} =>
             /\ pool.releaseCalls = once
             /\ pool.reserveCalls = 0
             /\ pool.reserved = PoolThreads - once
        /\ cbk.state # "none" => pool.releaseCalls = once
        /\ caller.pc \in {"reserved", "returned"} =>
             /\ pool.releaseCalls = once
             /\ pool.reserveCalls = once
             /\ pool.reserved = PoolThreads

C14_Witness ==
    /\ caller.pc = "returned"
    /\ caller.isWorker
    /\ pool.releaseCalls = 1
    /\ pool.reserveCalls = 1
    /\ cbk.state = "done"

(***************************************************************************)
(* Part 4, properties                                                      *)
(***************************************************************************)
\* The frame holds exactly the declared samples, sample i being sample
\* sampleAt(i) of source clip id.
FrameHolds(frame, bps, length, id, sampleAt(_)) ==
    /\ frame # NullFrame
    /\ frame.length = length
    /\ \A i \in 0 .. length - 1 : \A b \in 0 .. bps - 1 :
          ByteAt(frame.data, i * bps + b) = SampleByte(id, sampleAt(i), b)

\* C15: AudioReverse: output frame n has
\* min(VS_AUDIO_FRAME_SAMPLES, numSamples - n*VS_AUDIO_FRAME_SAMPLES)
\* samples and clip-wide output sample j is source sample numSamples-1-j,
\* whether or not numSamples is a multiple of the frame size.
C15_ReverseSamples ==
    (aud.filter = "AudioReverse" /\ got # NoFrame) =>
       LET sampleAt(i) == aud.ai.numSamples - 1
                       - (got.n * VS_AUDIO_FRAME_SAMPLES + i)
       IN  /\ ~got.ub
           /\ FrameHolds(got.frame, aud.ai.bytesPerSample,
                         FrameLength(aud.ai.numSamples, got.n), 1, sampleAt)

C15_Witness ==
    /\ aud.filter = "AudioReverse"
    /\ got # NoFrame
    /\ aud.ai.numSamples % VS_AUDIO_FRAME_SAMPLES # 0
    /\ aud.ai.numFrames >= 3
    /\ got.n = 1
    /\ Cardinality(got.lookups) = 2

\* The length the arguments of AudioTrim ask for.
TrimRequestedLength(a, numSamples) ==
    IF a.lastset THEN a.last - a.first + 1
    ELSE IF a.lengthset THEN a.length
    ELSE numSamples - a.first

\* C16: AudioTrim: for accepted arguments the output clip's numSamples is
\* the requested length (length, or last-first+1, or source
\* numSamples-first), and output frame n has
\* min(VS_AUDIO_FRAME_SAMPLES, numSamples - n*VS_AUDIO_FRAME_SAMPLES)
\* samples, sample i being source sample
\* first + n*VS_AUDIO_FRAME_SAMPLES + i.
C16_TrimSamples ==
    aud.filter = "AudioTrim" =>
       /\ aud.ai.numSamples
             = TrimRequestedLength(aud.args, aud.src[1].numSamples)
       /\ got # NoFrame =>
             LET sampleAt(i) == aud.first + got.n * VS_AUDIO_FRAME_SAMPLES + i
             IN  /\ ~got.ub
                 /\ FrameHolds(got.frame, aud.ai.bytesPerSample,
                               FrameLength(aud.ai.numSamples, got.n), 1, sampleAt)

C16_Witness ==
    /\ aud.filter = "AudioTrim"
    /\ ~aud.passthrough
    /\ aud.args.lengthset
    /\ aud.first % VS_AUDIO_FRAME_SAMPLES # 0
    /\ got # NoFrame
    /\ Cardinality(got.lookups) = 2
    /\ got.frame.length < VS_AUDIO_FRAME_SAMPLES

\* Sample j of the concatenation of the clips: the clip and the sample in it.
RECURSIVE ConcatAt(_, _, _)
ConcatAt(clips, i, j) ==
    IF j < clips[i].numSamples THEN <<i, j>>
    ELSE ConcatAt(clips, i + 1, j - clips[i].numSamples)

\* C17: AudioSplice: the output numSamples is the sum of the inputs'
\* numSamples, and clip-wide output sample j is sample j of the
\* concatenation of the inputs in argument order, also in frames that
\* straddle one or more clip boundaries.
C17_SpliceSamples ==
    aud.filter = "AudioSplice" =>
       /\ aud.ai.numSamples = SumSamples(aud.src, 1)
       /\ got # NoFrame =>
             /\ ~got.ub
             /\ got.frame # NullFrame
             /\ got.frame.length = FrameLength(aud.ai.numSamples, got.n)
             /\ \A i \in 0 .. got.frame.length - 1 :
                \A b \in 0 .. aud.ai.bytesPerSample - 1 :
                   LET where == ConcatAt(aud.src, 1,
                                 got.n * VS_AUDIO_FRAME_SAMPLES + i)
                   IN  ByteAt(got.frame.data, i * aud.ai.bytesPerSample + b)
                          = SampleByte(where[1], where[2], b)

(***************************************************************************)
(* Part 2, properties of the walk of ReadMedia                             *)
(***************************************************************************)
\* The region of the layout that holds the byte at pos: its kind and the
\* number of its bytes from pos on.
RECURSIVE RegionAt(_, _)
RegionAt(runs, pos) ==
    IF runs = << >> THEN [kind |-> "none", left |-> 0]
    ELSE IF pos < Head(runs)[5]
         THEN [kind |-> Head(runs)[1], left |-> Head(runs)[5] - pos]
         ELSE RegionAt(Tail(runs), pos - Head(runs)[5])

\* Every write of a walk, the first of them going to the byte pos of the
\* file, is a write of the region that holds its first byte and stays
\* inside that region.
RECURSIVE WritesWithinRegions(_, _, _)
WritesWithinRegions(writes, pos, image) ==
    \/ writes = << >>
    \/ /\ Head(writes)[1] = RegionAt(image, pos).kind
       /\ Head(writes)[5] <= RegionAt(image, pos).left
       /\ WritesWithinRegions(Tail(writes), pos + Head(writes)[5], image)

\* C21: in ReadMedia every layout region is consumed linearly and writes at
\* most (region size - offset within the region) bytes before the walk moves
\* to the next region; a read that reaches an audio or video alignment pad
\* with more bytes outstanding than the pad holds writes only the pad's zero
\* bytes and continues with the bytes of the following chunk.
C21_RegionsLinear ==
    rd.state = "done" =>
        WritesWithinRegions(rd.buffer, rd.fileOffset, Image(avi))

\* The writes of a walk that copy less than one sample of audio, each with
\* the byte of the file it goes to.
RECURSIVE PartialSampleWrites(_, _, _)
PartialSampleWrites(writes, pos, sampleSize) ==
    IF writes = << >> THEN {}
    ELSE (IF Head(writes)[1] = "aud" /\ Head(writes)[5] < sampleSize
          THEN {<<pos, Head(writes)>>} ELSE {})
         \cup PartialSampleWrites(Tail(writes), pos + Head(writes)[5],
                                  sampleSize)

\* The audio chunk that holds the byte pos of the file: its first sample
\* and the offset of pos in its data.
RECURSIVE AudChunkAt(_, _, _, _)
AudChunkAt(f, segi, segFrame, pos) ==
    IF segi >= f.fileSegCount THEN [found |-> FALSE]
    ELSE
    LET seg == f.segs[segi + 1] IN
    IF segFrame >= seg.audFrameCount
    THEN AudChunkAt(f, segi + 1, 0, pos)
    ELSE
    LET loc  == LocateFrameSamples(f, seg.startFrame + segFrame,
                    IF segFrame + 1 = seg.audFrameCount
                    THEN seg.lastAudFramePackCount + 1 ELSE 1)
        data == seg.startOffset + seg.hdrSize + seg.frameIndx[segFrame + 1]
                + RiffTagSize
    IN  IF data <= pos /\ pos < data + loc.count * f.sampleSize
        THEN [found |-> TRUE, startSample |-> loc.start,
              offsetInChunk |-> pos - data]
        ELSE AudChunkAt(f, segi, segFrame + 1, pos)

\* C22: for every read that starts or ends inside an audio chunk at a byte
\* offset that is not a multiple of sampleSize, the partial-sample bytes
\* copied through the scratch area are bytes of sample startSample +
\* floor(offsetInChunk / sampleSize) of the audio stream, startSample being
\* the chunk's first sample, for every frame of every segment.
C22_PartialSample ==
    rd.state = "done" =>
        \A w \in PartialSampleWrites(rd.buffer, rd.fileOffset,
                                     avi.sampleSize) :
            LET c == AudChunkAt(avi, 0, 0, w[1])
            IN  /\ c.found
                /\ w[2][4] \div avi.sampleSize
                      = c.startSample
                        + (c.offsetInChunk \div avi.sampleSize)
                /\ w[2][4] % avi.sampleSize
                      = c.offsetInChunk % avi.sampleSize

\* The least integer that is at least num / den.
CeilDiv(num, den) == (num + den - 1) \div den

\* The file has audio and was laid out with interleaving.
Interleaved == avi.state = "ready" /\ avi.fileSampleCount # 0
               /\ ~avi.noInterleave

\* The bytes of the first audio chunk of the file.
FirstAudChunkSize == avi.segs[1].audIndx.ents[1].dwSize

RECURSIVE AudChunkRanges(_, _, _)
AudChunkRanges(f, segi, segFrame) ==
    IF segi >= f.fileSegCount THEN << >>
    ELSE
    LET seg == f.segs[segi + 1] IN
    IF segFrame >= seg.audFrameCount
    THEN AudChunkRanges(f, segi + 1, 0)
    ELSE <<LocateFrameSamples(f, seg.startFrame + segFrame,
               IF segFrame + 1 = seg.audFrameCount
               THEN seg.lastAudFramePackCount + 1 ELSE 1)>>
         \o AudChunkRanges(f, segi, segFrame + 1)

\* The ranges are non-empty and each starts where the one before ends.
Contiguous(ranges) ==
    /\ \A k \in 1 .. Len(ranges) : ranges[k].count > 0
    /\ \A k \in 1 .. Len(ranges) - 1 :
          ranges[k + 1].start = ranges[k].start + ranges[k].count

\* C24: in both interleaved and no-interleave mode, the sample ranges of the
\* audio chunks taken in file order are contiguous, non-overlapping and
\* non-empty, start at sample 0, and the last audio chunk of the file ends
\* at fileSampleCount, so every audio sample of the stream is in exactly one
\* chunk, also when samples-per-video-frame is not an integer.
C24_AudioChunksCoverStream ==
    (avi.state = "ready" /\ avi.fileSampleCount # 0 /\ rd.state = "none") =>
        LET ranges == AudChunkRanges(avi, 0, 0)
            last   == ranges[Len(ranges)]
        IN  /\ Len(ranges) >= 1
            /\ ranges[1].start = 0
            /\ Contiguous(ranges)
            /\ last.start + last.count = avi.fileSampleCount

\* The regions of a segment: header, movi payload, both index pads, ix00,
\* ix01 and idx1.
SegTotalSize(seg) ==
    seg.hdrSize + seg.dataSize + indxPrePadSize + seg.vidIndxSize
    + seg.audIndxSize + seg.oldIndxSize + indxPostPadSize

\* A size is at most the limit of the segments of the file: 0x3FFFFFFE with
\* AVFS_AVI_SmallSegments, 0xFFFFFFFE (twice avi2Max4GbSegSizeHalf)
\* otherwise.
WithinSegLimit(segSize) ==
    IF avi.smallSegments THEN segSize <= avi2MaxSegSize
    ELSE (segSize + 1) \div 2 <= avi2Max4GbSegSizeHalf

\* C25: every segment Init lays out has a total size (header + movi payload
\* + both index pads + ix00 + ix01 + idx1) of at most 0x3FFFFFFE bytes when
\* AVFS_AVI_SmallSegments is set and at most 0xFFFFFFFE bytes otherwise,
\* and every segment size is even.
C25_SegSizeBound ==
    (avi.state = "ready" /\ rd.state = "none") =>
        \A i \in 1 .. Len(avi.segs) :
            /\ avi.segs[i].segSize = SegTotalSize(avi.segs[i])
            /\ avi.segs[i].segSize % 2 = 0
            /\ WithinSegLimit(avi.segs[i].segSize)

(***************************************************************************)
(* Part 4, properties of the two activations                               *)
(***************************************************************************)
\* The filters that fetch their input in two activations.
TwoPhaseFilters == {"AudioTrim", "AudioSplice", "AudioLoop"}

\* The lookup of frame k of input node: the frame is there when it was
\* requested.
LookupFound(k, node) ==
    /\ node \in 1 .. Len(aud.src)
    /\ getFrameFilter(k, aud.src[node], node, got.requested) # NullFrame

\* C26: two-phase consistency: for each of AudioTrim, AudioSplice and
\* AudioLoop, for every configuration of input clip lengths and every
\* output frame n, every (input node, frame index) the filter looks up with
\* getFrameFilter in the arAllFramesReady activation was requested with
\* requestFrameFilter in the arInitial activation for the same n, so no
\* lookup returns null.
C26_TwoPhase ==
    (aud.filter \in TwoPhaseFilters /\ got # NoFrame) =>
        /\ \A l \in got.lookups : LookupFound(l[2], l[1])
        /\ got.frame # NullFrame

\* A copy stays within the declared length of the new frame and within the
\* length of the source frame it reads.
CopyWithinLengths(c) ==
    /\ c.count >= 0
    /\ c.dstOff + c.count <= c.dstLength
    /\ c.srcOff + c.count <= c.srcLength

\* C27: for every output frame n of AudioTrim, the last frame of the
\* trimmed clip included, the number of samples copied into each channel of
\* the new frame never exceeds the frame's declared length (the numSamples
\* passed to newAudioFrame), and the samples read from each source frame
\* lie within that source frame's length.
C27_TrimCopiesWithinLengths ==
    (aud.filter = "AudioTrim" /\ got # NoFrame) =>
        \A c \in got.copies : CopyWithinLengths(c)

(***************************************************************************)
(* Part 5, properties                                                      *)
(***************************************************************************)
\* The filter requested frame n of the node in this frame context.
WasRequested(node, n) ==
    \E r \in deps.requested : r.node = node /\ r.n = n

\* C28: for every n that a filter requested from a node (n >= numFrames,
\* which the request clamps, included), after releaseFrameEarly(node, n,
\* ctx) the context's dependency dict no longer holds the frame that
\* getFrameFilter(n, node, ctx) returned before the call, a subsequent
\* getFrameFilter(n, node, ctx) returns null, and all other entries of the
\* dict are unchanged.
C28_ReleaseFrameEarly ==
    (deps.last.op = "releaseFrameEarly"
       /\ WasRequested(deps.last.node, deps.last.n)) =>
        LET key == NodeOutputKey(deps.last.node,
                                 LookupIndex(deps.last.n, deps.last.node))
        IN  /\ key \notin deps.availableFrames
            /\ deps.availableFrames = deps.last.before \ {key}

\* C29: for every node (one whose numFrames is 0 included) and every
\* n >= 0, the frame index under which requestFrameFilter(n, node) creates
\* the dependency is the frame index getFrameFilter(n, node) looks up, so a
\* dependency that was requested and completed is found by the lookup with
\* the same n.
C29_RequestAndLookupAgree ==
    /\ \A r \in deps.requested :
          r.key = NodeOutputKey(r.node, LookupIndex(r.n, r.node))
    /\ (deps.last.op = "getFrameFilter"
          /\ \E r \in deps.requested :
                /\ r.node = deps.last.node /\ r.n = deps.last.n
                /\ r.key \in deps.availableFrames)
         => deps.last.found

(***************************************************************************)
(* Part 2, properties of a whole call of ReadMedia                         *)
(***************************************************************************)
RECURSIVE BytesWritten(_)
BytesWritten(runs) ==
    IF runs = << >> THEN 0
    ELSE (IF Head(runs)[1] = "undef" THEN 0 ELSE Head(runs)[5])
         + BytesWritten(Tail(runs))

RECURSIVE BytesAdvanced(_)
BytesAdvanced(runs) ==
    IF runs = << >> THEN 0 ELSE Head(runs)[5] + BytesAdvanced(Tail(runs))

\* The segments whose byte range contains a file offset.
SegsContaining(f, fileOffset) ==
    { i \in 0 .. f.fileSegCount - 1 :
        /\ f.segs[i + 1].startOffset <= fileOffset
        /\ fileOffset < f.segs[i + 1].startOffset + f.segs[i + 1].segSize }

\* C30: for every (fileOffset, size) with size > 0 and fileOffset + size <=
\* fileSize, ReadMedia terminates, the binary search selects the one segment
\* whose byte range contains fileOffset, the walk indexes no segment at or
\* past fileSegCount, when every fetch succeeds the call returns success
\* with exactly size bytes written to the buffer, and when a fetch fails the
\* call returns failure, the buffer never advanced past size bytes.
C30_ReadMediaWalk ==
    (avi.state = "ready" /\ rd.state \in {"done", "failed"}) =>
        /\ SegsContaining(avi, rd.fileOffset) = {rd.segi}
        /\ ~rd.ub
        /\ BytesAdvanced(rd.buffer) <= rd.requestedSize
        /\ rd.state = "done" =>
              /\ rd.success
              /\ rd.remainingSize = 0
              /\ BytesWritten(rd.buffer) = rd.requestedSize
        /\ rd.state = "failed" => ~rd.success

\* A read that starts inside the second segment of a file of two segments,
\* runs to the end of the file and fetched frame data on the way.
C30_Witness ==
    /\ avi.state = "ready"
    /\ rd.state = "done"
    /\ avi.fileSegCount = 2
    /\ rd.segi = 1
    /\ rd.fileOffset > avi.segs[2].startOffset
    /\ rd.fileOffset + rd.requestedSize = avi.fileSize
    /\ \E k \in 1 .. Len(rd.buffer) : rd.buffer[k][1] \in {"vid", "aud"}
    /\ BytesWritten(rd.buffer) = rd.requestedSize

====
